---- MODULE Spec2Model ----
(***************************************************************************)
(* Model of the walter-checks QA bot (src/qa-bot/review.py,                *)
(* src/qa-bot/analyzers.py): batch planning, the parallel tool runner     *)
(* with its worker pool and heartbeat thread, the tool adapters, the       *)
(* PHPStan finding compressor, the prior-report loader, file discovery,    *)
(* the review driver (main), the two renderings of a tool suite and the    *)
(* project configuration file.  Each component has its own specification;  *)
(* the variables of the other components stay idle under it.               *)
(*                                                                         *)
(* Python strings are modelled by TLA+ strings; substring, suffix and      *)
(* comparison tests are computed character by character.                   *)
(***************************************************************************)
EXTENDS Integers, Sequences, FiniteSets, TLC

VARIABLES
    files,          \* review.py: the list discover_files returned ({"path","content"})
    strategy,       \* review.py: profile["grouping"], the key into GROUPERS
    batches,        \* review.py: the list of batches the grouper returned
    bphase,         \* "discovered" before the grouper ran, "batched" after
    tasks,          \* analyzers.py _run_parallel: the task list (label, fn, args)
    adapter_out,    \* per task, what calling its adapter produces in this run's environment
    fut,            \* per task, its future: "queued", "running", "finished", "collected"
    futval,         \* per task, what its future holds once finished (result or exception)
    results,        \* _run_parallel: results, in collection order
    completed_labels, \* _run_parallel: completed_labels
    returned,       \* the list _run_parallel returned
    pphase,         \* "pool" while the executor block runs, "done" once done_event is set, "returned" after
    done_event,     \* _run_parallel: done_event is set
    hb,             \* the heartbeat thread: its position, the task its comprehension is at, pending
    hb_msg,         \* the last "waiting on" line printed, with completed_labels as the beat began and as it printed
    msg_pool,       \* the message texts the PHPStan report of this run draws from
    all_lines,      \* analyzers.py run_phpstan: all_lines
    compact_lines,  \* analyzers.py run_phpstan: compact_lines
    dphase,         \* "collect" while all_lines is built, "compacted" after the dedup block
    acall,          \* analyzers.py: the adapter called last and what it found in its environment
    aruns,          \* the _run calls that adapter made, in order
    aresult,        \* what the adapter call produced: an AnalyzerResult or an exception
    awritten,       \* the files of the repository the adapter's processes created or changed
    prior_file,     \* review.py main: what open(prior_report_path).read() does: its text, or the error it raises
    prior_report_ctx,\* review.py main: prior_report_ctx
    rphase,         \* "found" once the prior report path is a file, "loaded" after load_prior_report
    repo_fs,        \* the repository discover_files scans: its files, whether git lists them, profile, file_filter, excludes
    dfiles,         \* review.py main: files, one list per run of discover_files over repo_fs
    dbatches,       \* review.py main: batches, one list per run of the grouper
    run_in,         \* what a run of main meets: arguments, tool output, diff, the files found, the engine's model list
    mpc,            \* review.py main: where the run stands
    mtrace,         \* the calls main made so far, in order
    mctx,           \* review.py main: analysis_ctx, diff_ctx, prior_report_ctx
    model_name,     \* review.py main: model_name
    mbatches,       \* review.py main: batches
    requests,       \* the user messages sent to the completion engine, in order
    inflight,       \* the batches (by number) whose request the engine has not answered yet
    mresults,       \* review.py main: results
    suite,          \* analyzers.py AnalysisSuite.results
    suite_ctx,      \* review.py run_tools: what suite.to_prompt_context() returned
    suite_rpt,      \* review.py run_tools: what suite.to_report_section() returned
    sphase,         \* "built" when the suite is complete, then "prompted", then "reported"
    cfg_in,         \* review.py main: the command line and what the file system holds for WalterChecks.json
    config,         \* main: config, the value load_config returned
    cargs,          \* main: args (profile, phpstan_level) and repo, as apply_config leaves them
    cwarned,        \* load_config printed its "Invalid WalterChecks.json" warning
    cpc             \* main's position around the configuration: "load", "apply", "configured", "raised"

batchVars == <<files, strategy, batches, bphase>>
parVars == <<tasks, adapter_out, fut, futval, results, completed_labels, returned,
    pphase, done_event, hb, hb_msg>>
dedupVars == <<msg_pool, all_lines, compact_lines, dphase>>
adapterVars == <<acall, aruns, aresult, awritten>>
priorVars == <<prior_file, prior_report_ctx, rphase>>
discVars == <<repo_fs, dfiles, dbatches>>
mainVars == <<run_in, mpc, mtrace, mctx, model_name, mbatches, requests, inflight, mresults>>
renderVars == <<suite, suite_ctx, suite_rpt, sphase>>
cfgVars == <<cfg_in, config, cargs, cwarned, cpc>>
vars == <<batchVars, parVars, dedupVars, adapterVars, priorVars, discVars,
    mainVars, renderVars, cfgVars>>

notBatchVars == <<parVars, dedupVars, adapterVars, priorVars, discVars,
    mainVars, renderVars, cfgVars>>
notParVars == <<batchVars, dedupVars, adapterVars, priorVars, discVars,
    mainVars, renderVars, cfgVars>>
notDedupVars == <<batchVars, parVars, adapterVars, priorVars, discVars,
    mainVars, renderVars, cfgVars>>
notAdapterVars == <<batchVars, parVars, dedupVars, priorVars, discVars,
    mainVars, renderVars, cfgVars>>
notPriorVars == <<batchVars, parVars, dedupVars, adapterVars, discVars,
    mainVars, renderVars, cfgVars>>
notDiscVars == <<batchVars, parVars, dedupVars, adapterVars, priorVars,
    mainVars, renderVars, cfgVars>>
notMainVars == <<batchVars, parVars, dedupVars, adapterVars,
    priorVars, discVars, renderVars, cfgVars>>
notRenderVars == <<batchVars, parVars, dedupVars, adapterVars,
    priorVars, discVars, mainVars, cfgVars>>
notCfgVars == <<batchVars, parVars, dedupVars, adapterVars,
    priorVars, discVars, mainVars, renderVars>>

\* The components are checked one at a time; the others stay idle.
IdleBatch ==
    files = <<>> /\ strategy = "flat" /\ batches = <<>> /\ bphase = "idle"

IdleParallel ==
    /\ tasks = <<>> /\ adapter_out = <<>> /\ fut = <<>> /\ futval = <<>>
    /\ results = <<>> /\ completed_labels = {} /\ returned = <<>> /\ pphase = "idle"
    /\ done_event = FALSE /\ hb = [pc |-> "idle"] /\ hb_msg = [printed |-> FALSE]

IdleDedup ==
    /\ msg_pool = [msgs |-> {}, general |-> {}] /\ all_lines = <<>>
    /\ compact_lines = <<>> /\ dphase = "idle"

IdleAdapter ==
    /\ acall = [fn |-> "none"] /\ aruns = <<>> /\ aresult = [kind |-> "none"]
    /\ awritten = {}

IdlePrior ==
    prior_file = [readable |-> FALSE, text |-> ""] /\ prior_report_ctx = "" /\ rphase = "idle"

IdleDiscover ==
    repo_fs = [git |-> FALSE] /\ dfiles = <<>> /\ dbatches = <<>>

IdleMain ==
    /\ run_in = [mode |-> "none"] /\ mpc = "idle" /\ mtrace = <<>> /\ mctx = [analysis_ctx |-> ""]
    /\ model_name = "" /\ mbatches = <<>> /\ requests = <<>> /\ inflight = {} /\ mresults = <<>>

IdleRender ==
    suite = <<>> /\ suite_ctx = "" /\ suite_rpt = "" /\ sphase = "idle"

IdleConfig ==
    /\ cfg_in = [given |-> FALSE]
    /\ config = [t |-> "none"]
    /\ cargs = [profile |-> ""]
    /\ cwarned = FALSE
    /\ cpc = "idle"

OthersIdle(component) ==
    /\ component # "adapter" => IdleAdapter
    /\ component # "batch" => IdleBatch
    /\ component # "parallel" => IdleParallel
    /\ component # "dedup" => IdleDedup
    /\ component # "prior" => IdlePrior
    /\ component # "discover" => IdleDiscover
    /\ component # "main" => IdleMain
    /\ component # "render" => IdleRender
    /\ component # "config" => IdleConfig

(***************************************************************************)
(* String helpers (Python str methods)                                     *)
(***************************************************************************)

\* k in s
Contains(s, k) ==
    \E i \in 1..(Len(s) - Len(k) + 1) : SubSeq(s, i, i + Len(k) - 1) = k

\* s.endswith(k)
EndsWith(s, k) ==
    Len(s) >= Len(k) /\ SubSeq(s, Len(s) - Len(k) + 1, Len(s)) = k

\* s.startswith(k)
StartsWith(s, k) ==
    Len(s) >= Len(k) /\ SubSeq(s, 1, Len(k)) = k

UpperChars == "ABCDEFGHIJKLMNOPQRSTUVWXYZ"
LowerChars == "abcdefghijklmnopqrstuvwxyz"

LowerChar(c) ==
    IF \E i \in 1..Len(UpperChars) : SubSeq(UpperChars, i, i) = c
    THEN LET i == CHOOSE j \in 1..Len(UpperChars) : SubSeq(UpperChars, j, j) = c
         IN  SubSeq(LowerChars, i, i)
    ELSE c

\* s.lower()
RECURSIVE Lower(_)
Lower(s) ==
    IF Len(s) = 0 THEN s
    ELSE LowerChar(SubSeq(s, 1, 1)) \o Lower(SubSeq(s, 2, Len(s)))

UpperChar(c) ==
    IF \E i \in 1..Len(LowerChars) : SubSeq(LowerChars, i, i) = c
    THEN LET i == CHOOSE j \in 1..Len(LowerChars) : SubSeq(LowerChars, j, j) = c
         IN  SubSeq(UpperChars, i, i)
    ELSE c

\* s.upper()
RECURSIVE Upper(_)
Upper(s) ==
    IF Len(s) = 0 THEN s
    ELSE UpperChar(SubSeq(s, 1, 1)) \o Upper(SubSeq(s, 2, Len(s)))

\* os.path.basename(p): what follows the last "/"
Basename(p) ==
    LET slashes == {i \in 1..Len(p) : SubSeq(p, i, i) = "/"}
    IN  IF slashes = {} THEN p
        ELSE LET last == CHOOSE i \in slashes : \A j \in slashes : j <= i
             IN  SubSeq(p, last + 1, Len(p))

\* s.strip("/")
RECURSIVE StripSlashes(_)
StripSlashes(s) ==
    IF Len(s) > 0 /\ SubSeq(s, 1, 1) = "/" THEN StripSlashes(SubSeq(s, 2, Len(s)))
    ELSE IF Len(s) > 0 /\ SubSeq(s, Len(s), Len(s)) = "/"
         THEN StripSlashes(SubSeq(s, 1, Len(s) - 1))
         ELSE s

\* s.count("/")
CountSlashes(s) == Cardinality({i \in 1..Len(s) : SubSeq(s, i, i) = "/"})

\* any(k in s for k in keys)
AnyIn(s, keys) == \E k \in keys : Contains(s, k)

\* s.endswith(tuple of suffixes)
EndsWithAny(s, sufs) == \E k \in sufs : EndsWith(s, k)

\* The index of the first occurrence of k in s, 0 when there is none
\* (s.find(k) + 1)
FirstIndex(s, k) ==
    LET hits == {i \in 1..(Len(s) - Len(k) + 1) : SubSeq(s, i, i + Len(k) - 1) = k}
    IN  IF hits = {} THEN 0 ELSE CHOOSE i \in hits : \A j \in hits : i <= j

Whitespace == {" ", "\n", "\t", "\r"}

\* s.strip()
RECURSIVE Strip(_)
Strip(s) ==
    IF Len(s) > 0 /\ SubSeq(s, 1, 1) \in Whitespace THEN Strip(SubSeq(s, 2, Len(s)))
    ELSE IF Len(s) > 0 /\ SubSeq(s, Len(s), Len(s)) \in Whitespace
         THEN Strip(SubSeq(s, 1, Len(s) - 1))
         ELSE s

\* s[:n]
Prefix(s, n) == IF Len(s) <= n THEN s ELSE SubSeq(s, 1, n)

Digits == "0123456789"

\* str(n) for one digit
DigitStr(n) == SubSeq(Digits, n + 1, n + 1)

\* str(n), n >= 0
RECURSIVE IntStr(_)
IntStr(n) == IF n < 10 THEN DigitStr(n) ELSE IntStr(n \div 10) \o DigitStr(n % 10)

\* sep.join(parts)
RECURSIVE Join(_, _)
Join(parts, sep) ==
    IF parts = <<>> THEN ""
    ELSE IF Len(parts) = 1 THEN parts[1]
    ELSE parts[1] \o sep \o Join(Tail(parts), sep)

(***************************************************************************)
(* BATCHING (review.py)                                                    *)
(***************************************************************************)

MAX_CHARS_PER_BATCH == 12000

\* len(f["content"])
FileLen(f) == f.content_len

RECURSIVE SumLen(_)
SumLen(batch) ==
    IF batch = <<>> THEN 0 ELSE FileLen(Head(batch)) + SumLen(Tail(batch))

\* One iteration of the inner loop of _batch_groups: st holds the
\* function's locals (out = batches, batch, sz); f is the next file.
\* Faulty variant: the batch is closed already when the budget is reached.
PackClosesAtBudget(sz, fsz) == sz + fsz >= MAX_CHARS_PER_BATCH

\* Faulty variant: the size of the file about to be added is left out.
PackClosesIgnoresFile(sz, fsz) == sz > MAX_CHARS_PER_BATCH

\* review.py:380, the size test of "if sz + fsz > MAX_CHARS_PER_BATCH and batch"
PackCloses(sz, fsz) == sz + fsz > MAX_CHARS_PER_BATCH

PackStep(st, f) ==
    LET fsz == FileLen(f)
        s1  == IF PackCloses(st.sz, fsz) /\ st.batch # <<>>
               THEN [out |-> Append(st.out, st.batch), batch |-> <<>>, sz |-> 0]
               ELSE st
    IN  IF fsz > MAX_CHARS_PER_BATCH
        THEN LET s2 == IF s1.batch # <<>>
                       THEN [out |-> Append(s1.out, s1.batch), batch |-> <<>>, sz |-> 0]
                       ELSE s1
             IN  [s2 EXCEPT !.out = Append(s2.out, <<f>>)]
        ELSE [s1 EXCEPT !.batch = Append(s1.batch, f), !.sz = s1.sz + fsz]

RECURSIVE PackFiles(_, _)
PackFiles(st, group_files) ==
    IF group_files = <<>> THEN st
    ELSE PackFiles(PackStep(st, Head(group_files)), Tail(group_files))

\* Faulty variant: the trailing "if batch: batches.append(batch)" is left
\* out, so the files still in the batch in progress are lost.
PackGroupNoFlush(out, group_files) ==
    PackFiles([out |-> out, batch |-> <<>>, sz |-> 0], group_files).out

\* The body of the outer loop of _batch_groups for one group: the
\* "if not group_files: continue", a fresh batch, sz = [], 0, the inner
\* loop, and the trailing "if batch".
PackGroup(out, group_files) ==
    IF group_files = <<>> THEN out
    ELSE LET st == PackFiles([out |-> out, batch |-> <<>>, sz |-> 0], group_files)
         IN  IF st.batch # <<>> THEN Append(st.out, st.batch) ELSE st.out

RECURSIVE Flatten(_)
Flatten(seqs) == IF seqs = <<>> THEN <<>> ELSE Head(seqs) \o Flatten(Tail(seqs))

RECURSIVE BatchGroupsFrom(_, _)
BatchGroupsFrom(out, groups) ==
    IF groups = <<>> THEN out
    ELSE BatchGroupsFrom(PackGroup(out, Head(groups)), Tail(groups))

\* Faulty variant: the files of all groups are packed as one run, so a
\* batch in progress is carried over into the next group.
BatchGroupsCarryOver(groups) == PackGroup(<<>>, Flatten(groups))

\* _batch_groups(groups): groups is the sequence of the dict's values in
\* insertion order.
BatchGroups(groups) == BatchGroupsFrom(<<>>, groups)

(***************************************************************************)
(* Grouping strategies: first-match-wins classifiers                       *)
(***************************************************************************)

\* group_wp_theme: the if/elif chain on p = f["path"].lower()
ClassifyWpTheme(path) ==
    LET p == Lower(path) IN
    IF Contains(p, "functions.php")
       \/ ((Contains(p, "inc/") \/ Contains(p, "includes/")) /\ EndsWith(p, ".php"))
    THEN "functions"
    ELSE IF EndsWith(p, ".php")
            /\ AnyIn(Basename(p), {"index.php", "single", "page", "archive", "search",
                   "404", "home", "front-page", "category", "tag", "taxonomy",
                   "author", "date", "attachment", "image", "comments"})
    THEN "template_hierarchy"
    ELSE IF EndsWith(p, ".php")
            /\ AnyIn(p, {"header", "footer", "sidebar", "template-parts/", "parts/",
                   "partials/", "components/"})
    THEN "partials"
    ELSE IF EndsWithAny(p, {".php", ".twig"}) THEN "theme_php"
    ELSE IF EndsWithAny(p, {".js", ".jsx", ".ts", ".tsx"}) THEN "javascript"
    ELSE IF EndsWithAny(p, {".css", ".scss"}) THEN "css"
    ELSE IF EndsWithAny(p, {".json", ".yml", ".yaml", ".xml", ".conf", ".htaccess"})
    THEN "config"
    ELSE "other"

WpThemeCategories ==
    <<"functions", "template_hierarchy", "partials", "theme_php", "javascript",
      "css", "config", "other">>

\* group_wp_plugin: the if/elif chain
ClassifyWpPlugin(path) ==
    LET p  == Lower(path)
        bn == Basename(p)
        depth == CountSlashes(StripSlashes(p))   \* the pool holds no backslash
    IN
    IF depth = 0 /\ EndsWith(p, ".php") THEN "main_plugin"
    ELSE IF Contains(p, "admin/") \/ Contains(bn, "admin-") \/ Contains(bn, "settings")
    THEN "admin"
    ELSE IF AnyIn(p, {"ajax", "rest-api", "rest/", "api/", "endpoints"}) THEN "ajax_rest"
    ELSE IF AnyIn(p, {"database", "migration", "table", "schema", "install"})
    THEN "database"
    ELSE IF Contains(p, "public/") \/ Contains(p, "frontend/") THEN "public_facing"
    ELSE IF EndsWith(p, ".php")
            /\ AnyIn(p, {"includes/", "inc/", "src/", "lib/", "classes/"})
    THEN "includes"
    ELSE IF EndsWith(p, ".php") THEN "includes"
    ELSE IF EndsWithAny(p, {".js", ".jsx", ".ts", ".tsx"}) THEN "javascript"
    ELSE IF EndsWithAny(p, {".css", ".scss"}) THEN "css"
    ELSE IF EndsWithAny(p, {".json", ".yml", ".yaml", ".xml"}) THEN "config"
    ELSE "other"

WpPluginCategories ==
    <<"main_plugin", "admin", "includes", "public_facing", "ajax_rest", "database",
      "javascript", "css", "config", "other">>

\* group_laravel: the if/elif chain
ClassifyLaravel(path) ==
    LET p  == Lower(path)
        bn == Basename(p)
    IN
    IF Contains(p, "filament/")
       /\ (Contains(p, "resource") \/ Contains(bn, "relationmanager")
              \/ Contains(bn, "relation"))
    THEN "filament_resources"
    ELSE IF Contains(p, "filament/") THEN "filament_pages_widgets"
    ELSE IF Contains(p, "api/") /\ Contains(p, "controller") THEN "api_controllers"
    ELSE IF Contains(p, "resources/") /\ Contains(bn, "resource.php")
            /\ EndsWith(p, ".php")
    THEN "api_resources"
    ELSE IF Contains(p, "controller") THEN "controllers"
    ELSE IF Contains(p, "request") /\ EndsWith(p, ".php") /\ Contains(p, "http/")
    THEN "form_requests"
    ELSE IF Contains(p, "/models/") THEN "models"
    ELSE IF Contains(p, "polic") THEN "policies"
    ELSE IF Contains(p, "middleware") THEN "middleware"
    ELSE IF Contains(p, "routes/") THEN "routes"
    ELSE IF Contains(p, "views/") \/ EndsWith(p, ".blade.php") THEN "views"
    ELSE IF Contains(p, "migration") THEN "migrations"
    ELSE IF AnyIn(p, {"services/", "actions/", "jobs/", "events/", "listeners/",
                      "notifications/"})
    THEN "services"
    ELSE IF EndsWithAny(p, {".js", ".jsx", ".ts", ".tsx", ".vue"}) THEN "javascript"
    ELSE IF EndsWithAny(p, {".json", ".yml", ".yaml"}) THEN "config"
    ELSE "other"

LaravelCategories ==
    <<"filament_resources", "filament_pages_widgets", "api_controllers",
      "api_resources", "controllers", "form_requests", "models", "policies",
      "middleware", "routes", "services", "migrations", "views", "javascript",
      "config", "other">>

\* group_flat: one group, "all"
ClassifyFlat(path) == "all"

FlatCategories == <<"all">>

\* GROUPERS[profile["grouping"]]: the classifier of a strategy
Classify(strat, path) ==
    CASE strat = "wp-theme"  -> ClassifyWpTheme(path)
      [] strat = "wp-plugin" -> ClassifyWpPlugin(path)
      [] strat = "laravel"   -> ClassifyLaravel(path)
      [] OTHER               -> ClassifyFlat(path)

Categories(strat) ==
    CASE strat = "wp-theme"  -> WpThemeCategories
      [] strat = "wp-plugin" -> WpPluginCategories
      [] strat = "laravel"   -> LaravelCategories
      [] OTHER               -> FlatCategories

MaxFiles == 4

\* Repo-relative paths the discovered list is drawn from, in the
\* lexicographic order discover_files yields them in.
PathPool ==
    <<"Admin/Api/Settings.php",
      "app/Http/Controllers/Api/UserController.php",
      "assets/js/app.js",
      "functions.php",
      "inc/template-tags.php",
      "single.php">>

\* Content lengths: fractions of the budget, the budget, and one above it.
ContentLens == {3000, 6000, MAX_CHARS_PER_BATCH, MAX_CHARS_PER_BATCH + 1}

Strategies == {"wp-theme", "wp-plugin", "laravel", "flat"}

\* The classifier's verdict on each path of the pool (Classify, tabulated).
PoolCategory ==
    [strat \in Strategies |->
        [i \in 1..Len(PathPool) |-> Classify(strat, PathPool[i])]]

PoolIndex(path) == CHOOSE i \in 1..Len(PathPool) : PathPool[i] = path

CategoryOf(strat, path) == PoolCategory[strat][PoolIndex(path)]

\* The dict g after the classification loop, as the sequence of its values:
\* g[c] holds the files classified c, in the order of the file list.
RECURSIVE FilesOfCategory(_, _, _)
FilesOfCategory(strat, fs, c) ==
    IF fs = <<>> THEN <<>>
    ELSE (IF CategoryOf(strat, Head(fs).path) = c THEN <<Head(fs)>> ELSE <<>>)
         \o FilesOfCategory(strat, Tail(fs), c)

GroupsOf(strat, fs) ==
    [i \in 1..Len(Categories(strat)) |-> FilesOfCategory(strat, fs, Categories(strat)[i])]

\* group_wp_theme / group_wp_plugin / group_laravel / group_flat
GroupFiles(strat, fs) == BatchGroups(GroupsOf(strat, fs))

(***************************************************************************)
(* Batching: inputs and actions                                            *)
(***************************************************************************)

RECURSIVE FileList(_, _, _)
FileList(sel, lens, i) ==
    IF i > Len(PathPool) THEN <<>>
    ELSE (IF i \in sel THEN <<[path |-> PathPool[i], content_len |-> lens[i]]>>
          ELSE <<>>) \o FileList(sel, lens, i + 1)

InitBatch ==
    /\ strategy \in Strategies
    /\ \E sel \in SUBSET (1..Len(PathPool)) :
          /\ Cardinality(sel) <= MaxFiles
          /\ \E lens \in [sel -> ContentLens] : files = FileList(sel, lens, 1)
    /\ batches = <<>>
    /\ bphase = "discovered"
    /\ OthersIdle("batch")

\* batches = grouper(files), review.py main
RunGrouper(strat) ==
    /\ bphase = "discovered"
    /\ strategy = strat
    /\ batches' = GroupFiles(strat, files)
    /\ bphase' = "batched"
    /\ UNCHANGED <<files, strategy, notBatchVars>>

GroupWpTheme  == RunGrouper("wp-theme")
GroupWpPlugin == RunGrouper("wp-plugin")
GroupLaravel  == RunGrouper("laravel")
GroupFlat     == RunGrouper("flat")

NextBatch == GroupWpTheme \/ GroupWpPlugin \/ GroupLaravel \/ GroupFlat

SpecBatch == InitBatch /\ [][NextBatch]_vars

(***************************************************************************)
(* Claims about batching                                                   *)
(***************************************************************************)

BatchCategory(b) == CategoryOf(strategy, b[1].path)

\* C1: every batch is non-empty and either its summed content length is at
\* most 12,000 or it is exactly one file longer than 12,000; a file longer
\* than 12,000 never shares a batch.
C1_BatchWithinBudget ==
    bphase = "batched" =>
        \A i \in 1..Len(batches) :
            LET b == batches[i] IN
            /\ b # <<>>
            /\ \/ SumLen(b) <= MAX_CHARS_PER_BATCH
               \/ (Len(b) = 1 /\ FileLen(b[1]) > MAX_CHARS_PER_BATCH)
            /\ \A k \in 1..Len(b) :
                  FileLen(b[k]) > MAX_CHARS_PER_BATCH => Len(b) = 1

\* A run with an oversized file alone in its batch next to a batch of
\* several files filled exactly to the budget.
C1_Witness ==
    /\ bphase = "batched"
    /\ \E i, j \in 1..Len(batches) :
          /\ Len(batches[i]) = 1 /\ FileLen(batches[i][1]) > MAX_CHARS_PER_BATCH
          /\ Len(batches[j]) > 1 /\ SumLen(batches[j]) = MAX_CHARS_PER_BATCH

\* C2: under every strategy each batch holds files of one category only,
\* also when the previous category's last batch still had room.
C2_NoMixedCategories ==
    bphase = "batched" =>
        \A i \in 1..Len(batches) :
            \A k \in 1..Len(batches[i]) :
                CategoryOf(strategy, batches[i][k].path) = BatchCategory(batches[i])

\* Two neighbouring batches of different categories that together would
\* have fitted the budget.
C2_Witness ==
    /\ bphase = "batched"
    /\ strategy \in {"wp-theme", "wp-plugin", "laravel"}
    /\ \E i \in 1..(Len(batches) - 1) :
          /\ BatchCategory(batches[i]) # BatchCategory(batches[i + 1])
          /\ SumLen(batches[i]) + SumLen(batches[i + 1]) <= MAX_CHARS_PER_BATCH

\* C3: a batch is closed before a file only when the file would take the
\* cumulative size strictly above 12,000: two neighbouring batches of one
\* category never fit together with the second one's first file, and a
\* category whose files sum to at most 12,000 is one single batch.
C3_StrictBoundary ==
    bphase = "batched" =>
        /\ \A i \in 1..(Len(batches) - 1) :
              BatchCategory(batches[i]) = BatchCategory(batches[i + 1]) =>
                  SumLen(batches[i]) + FileLen(batches[i + 1][1]) > MAX_CHARS_PER_BATCH
        /\ \A c \in {Categories(strategy)[n] : n \in 1..Len(Categories(strategy))} :
              LET fs == FilesOfCategory(strategy, files, c) IN
              (fs # <<>> /\ SumLen(fs) <= MAX_CHARS_PER_BATCH) =>
                  Cardinality({i \in 1..Len(batches) : BatchCategory(batches[i]) = c}) = 1

\* Four 3,000-character files of one category packed into one batch.
C3_Witness ==
    /\ bphase = "batched"
    /\ Len(files) = 4
    /\ \A k \in 1..4 : FileLen(files[k]) = 3000
    /\ batches = <<files>>

\* The files of all batches, in batch order.
BatchedFiles == Flatten(batches)

\* Position of the file with this path in the discovered list.
DiscoveredAt(path) == CHOOSE k \in 1..Len(files) : files[k].path = path

CategorySet(strat) == {Categories(strat)[n] : n \in 1..Len(Categories(strat))}

\* C28: under every strategy each discovered file has exactly one category
\* of the strategy and occupies exactly one place in the batches, nothing
\* else is in the batches, and two files of one category stand in the
\* batches in their discovered order.
C28_OrderPreservingPartition ==
    bphase = "batched" =>
        /\ \A k \in 1..Len(files) :
              /\ Classify(strategy, files[k].path) \in CategorySet(strategy)
              /\ Cardinality({n \in 1..Len(BatchedFiles) :
                                 BatchedFiles[n] = files[k]}) = 1
        /\ Len(BatchedFiles) = Len(files)
        /\ \A m, n \in 1..Len(BatchedFiles) :
              (/\ m < n
               /\ CategoryOf(strategy, BatchedFiles[m].path)
                      = CategoryOf(strategy, BatchedFiles[n].path))
                  => DiscoveredAt(BatchedFiles[m].path)
                        < DiscoveredAt(BatchedFiles[n].path)

\* A category spread over two batches, behind a batch of a category whose
\* file was discovered later: grouping reordered the list across categories
\* and packing split one category.
C28_Witness ==
    /\ bphase = "batched"
    /\ Len(files) = MaxFiles
    /\ BatchedFiles # files
    /\ \E i \in 1..(Len(batches) - 1) :
          /\ BatchCategory(batches[i]) = BatchCategory(batches[i + 1])
          /\ Len(batches[i]) > 1

(***************************************************************************)
(* TOOL ORCHESTRATOR (analyzers.py): suites and _run_parallel              *)
(***************************************************************************)

\* The characters of tool names and labels, in code point order.
CodePointOrder ==
    " ()-./0123456789ABCDEFGHIJKLMNOPQRSTUVWXYZ_abcdefghijklmnopqrstuvwxyz"

Ord(c) == CHOOSE i \in 1..Len(CodePointOrder) : SubSeq(CodePointOrder, i, i) = c

\* a < b on Python strings
RECURSIVE StrLess(_, _)
StrLess(a, b) ==
    IF Len(b) = 0 THEN FALSE
    ELSE IF Len(a) = 0 THEN TRUE
    ELSE IF SubSeq(a, 1, 1) = SubSeq(b, 1, 1)
         THEN StrLess(SubSeq(a, 2, Len(a)), SubSeq(b, 2, Len(b)))
         ELSE Ord(SubSeq(a, 1, 1)) < Ord(SubSeq(b, 1, 1))

\* The AnalyzerResult dataclass, with its defaults
AnalyzerResult(tool, success, findings_count, output, error, summary) ==
    [tool |-> tool, success |-> success, findings_count |-> findings_count,
     output |-> output, error |-> error, summary |-> summary]

\* name = ... at the head of each adapter
ToolName(fn, arg) ==
    CASE fn = "run_parallel_lint"  -> "PHP Parallel Lint"
      [] fn = "run_phpstan"        -> "PHPStan (Level " \o DigitStr(arg) \o ")"
      [] fn = "run_psalm"          -> "Psalm (Taint Analysis)"
      [] fn = "run_phpcs"          -> "PHPCS (" \o arg \o ")"
      [] fn = "run_phpmd"          -> "PHPMD (Mess Detector)"
      [] fn = "run_phpcpd"         -> "PHPCPD (Copy/Paste Detector)"
      [] fn = "run_rector_dry"     -> "Rector (Deprecation Check)"
      [] fn = "run_composer_audit" -> "Composer Security Audit"
      [] fn = "run_eslint"         -> "ESLint"
      [] fn = "run_stylelint"      -> "Stylelint"
      [] fn = "run_npm_audit"      -> "npm Security Audit"

Task(label, fn, arg) == [label |-> label, fn |-> fn, arg |-> arg]

PhpTasks(phpstan_level, standard) ==
    << Task("Parallel Lint", "run_parallel_lint", ""),
       Task("PHPStan", "run_phpstan", phpstan_level),
       Task("Psalm", "run_psalm", ""),
       Task("PHPCS", "run_phpcs", standard),
       Task("PHPMD", "run_phpmd", ""),
       Task("PHPCPD", "run_phpcpd", ""),
       Task("Rector", "run_rector_dry", ""),
       Task("Composer Audit", "run_composer_audit", "") >>

\* run_wordpress_suite / run_laravel_suite: the task list
PhpSuiteTasks(phpstan_level, standard) ==
    PhpTasks(phpstan_level, standard)
    \o << Task("ESLint", "run_eslint", ""),
          Task("Stylelint", "run_stylelint", ""),
          Task("npm Audit", "run_npm_audit", "") >>

WordpressSuiteTasks(phpstan_level) == PhpSuiteTasks(phpstan_level, "WordPress")

LaravelSuiteTasks(phpstan_level) == PhpSuiteTasks(phpstan_level, "PSR12")

\* run_react_suite: the task list
ReactSuiteTasks ==
    << Task("ESLint", "run_eslint", ""),
       Task("Stylelint", "run_stylelint", ""),
       Task("npm Audit", "run_npm_audit", "") >>

\* run_full_suite: the task list for a detected stack
FullSuiteTasks(has_php, is_wp, has_js, has_css, phpstan_level) ==
    (IF has_php
     THEN PhpTasks(phpstan_level, IF is_wp THEN "WordPress-Security" ELSE "PSR12")
     ELSE <<>>)
    \o (IF has_js
        THEN << Task("ESLint", "run_eslint", ""), Task("npm Audit", "run_npm_audit", "") >>
        ELSE <<>>)
    \o (IF has_css THEN << Task("Stylelint", "run_stylelint", "") >> ELSE <<>>)

PhpstanLevels == {5, 6}

\* Every task list a suite runner of SUITE_RUNNERS hands to _run_parallel
SuiteTaskLists ==
    {WordpressSuiteTasks(l) : l \in PhpstanLevels}
    \cup {LaravelSuiteTasks(l) : l \in PhpstanLevels}
    \cup {ReactSuiteTasks}
    \cup {FullSuiteTasks(php, wp, js, css, l) :
            php \in BOOLEAN, wp \in BOOLEAN, js \in BOOLEAN, css \in BOOLEAN,
            l \in PhpstanLevels}

MaxTasks == 3

MAX_WORKERS == 6

\* What calling the adapter of a task can produce, depending on the
\* environment: an AnalyzerResult or an exception.
AdapterOutcomes(task) ==
    LET name == ToolName(task.fn, task.arg) IN
    { [kind |-> "result",
       r |-> AnalyzerResult(name, TRUE, 2, "findings", "", "2 issue(s).")],
      [kind |-> "result",
       r |-> AnalyzerResult(name, TRUE, 0, "No issues found.", "", "0 issue(s).")],
      [kind |-> "result",
       r |-> AnalyzerResult(name, FALSE, 0, "", "Not installed", "")],
      [kind |-> "exception", text |-> "'str' object has no attribute 'get'"] }

NoValue == [kind |-> "none"]

\* The heartbeat thread inside done_event.wait(timeout=30)
HbWaiting == [pc |-> "wait", k |-> 0, pending |-> <<>>, began |-> {}]

NoMessage == [printed |-> FALSE]

\* _run_parallel up to "with ThreadPoolExecutor(max_workers=6) as ex" and
\* the submission of every task: the locals are fresh, the heartbeat
\* thread is started, every future is queued.
Submitted(task_list, outs) ==
    /\ tasks = task_list
    /\ adapter_out = outs
    /\ fut = [i \in 1..Len(task_list) |-> "queued"]
    /\ futval = [i \in 1..Len(task_list) |-> NoValue]
    /\ results = <<>>
    /\ completed_labels = {}
    /\ returned = <<>>
    /\ pphase = "pool"
    /\ done_event = FALSE
    /\ hb = HbWaiting
    /\ hb_msg = NoMessage

InitParallel ==
    /\ \E t \in {l \in SuiteTaskLists : Len(l) <= MaxTasks} :
          \E outs \in [1..Len(t) -> UNION {AdapterOutcomes(t[i]) : i \in 1..Len(t)}] :
              /\ \A i \in 1..Len(t) : outs[i] \in AdapterOutcomes(t[i])
              /\ Submitted(t, outs)
    /\ OthersIdle("parallel")

Running == {i \in 1..Len(tasks) : fut[i] = "running"}

\* Faulty variant: a thread is spawned for every submitted task.
WorkerFreeAlways(running) == TRUE

\* ThreadPoolExecutor(max_workers=6): a queued task is taken only by one of
\* the six worker threads, each of which runs one task at a time.
WorkerFree(running) == Cardinality(running) < MAX_WORKERS

\* A worker thread of ThreadPoolExecutor(max_workers=6) takes the oldest
\* queued task.
StartTask(i) ==
    /\ pphase = "pool"
    /\ fut[i] = "queued"
    /\ \A j \in 1..(i - 1) : fut[j] # "queued"
    /\ WorkerFree(Running)
    /\ fut' = [fut EXCEPT ![i] = "running"]
    /\ UNCHANGED <<tasks, adapter_out, futval, results, completed_labels, returned, pphase>>
    /\ UNCHANGED <<done_event, hb, hb_msg, notParVars>>

\* fn(*args) returns or raises in its worker thread.
FinishTask(i) ==
    /\ pphase = "pool"
    /\ fut[i] = "running"
    /\ futval' = [futval EXCEPT ![i] = adapter_out[i]]
    /\ fut' = [fut EXCEPT ![i] = "finished"]
    /\ UNCHANGED <<tasks, adapter_out, results, completed_labels, returned, pphase>>
    /\ UNCHANGED <<done_event, hb, hb_msg, notParVars>>

\* Faulty variant: a future that raised leaves no entry in results.
CollectedResultsDropRaised(rs, task, val) ==
    IF val.kind = "result" THEN Append(rs, val.r) ELSE rs

\* The body of "for i, f in enumerate(as_completed(futs), 1)": results
\* after the future of task was yielded.
CollectedResults(rs, task, val) ==
    IF val.kind = "result"
    THEN Append(rs, val.r)
    ELSE Append(rs, AnalyzerResult(task.label, FALSE, 0, "", val.text, ""))

\* as_completed yields a finished future; the main thread runs the loop body.
Collect(i) ==
    /\ pphase = "pool"
    /\ fut[i] = "finished"
    /\ results' = CollectedResults(results, tasks[i], futval[i])
    /\ completed_labels' = completed_labels \cup {tasks[i].label}
    /\ fut' = [fut EXCEPT ![i] = "collected"]
    /\ UNCHANGED <<tasks, adapter_out, futval, returned, pphase>>
    /\ UNCHANGED <<done_event, hb, hb_msg, notParVars>>

\* list.sort(key=lambda r: r.tool) is stable: r goes behind every entry
\* whose tool is not greater.
RECURSIVE InsertByTool(_, _)
InsertByTool(sorted, r) ==
    IF sorted = <<>> THEN <<r>>
    ELSE IF StrLess(r.tool, Head(sorted).tool) THEN <<r>> \o sorted
    ELSE <<Head(sorted)>> \o InsertByTool(Tail(sorted), r)

RECURSIVE SortInto(_, _)
SortInto(sorted, rs) ==
    IF rs = <<>> THEN sorted ELSE SortInto(InsertByTool(sorted, Head(rs)), Tail(rs))

\* Faulty variant: the results are returned in collection order.
UnsortedResults(rs) == rs

\* results.sort(key=lambda r: r.tool)
SortedByTool(rs) == SortInto(<<>>, rs)

\* as_completed is exhausted: the with block ends and done_event.set()
\* runs, which the heartbeat thread sees from then on.
SetDone ==
    /\ pphase = "pool"
    /\ \A i \in 1..Len(tasks) : fut[i] = "collected"
    /\ done_event' = TRUE
    /\ pphase' = "done"
    /\ UNCHANGED <<tasks, adapter_out, fut, futval, results, completed_labels>>
    /\ UNCHANGED <<returned, hb, hb_msg, notParVars>>

\* results.sort(key=lambda r: r.tool); return results
ReturnResults ==
    /\ pphase = "done"
    /\ returned' = SortedByTool(results)
    /\ pphase' = "returned"
    /\ UNCHANGED <<tasks, adapter_out, fut, futval, results, completed_labels>>
    /\ UNCHANGED <<done_event, hb, hb_msg, notParVars>>

NextParallel ==
    \/ \E i \in 1..Len(tasks) : StartTask(i)
    \/ \E i \in 1..Len(tasks) : FinishTask(i)
    \/ \E i \in 1..Len(tasks) : Collect(i)
    \/ SetDone
    \/ ReturnResults

SpecParallel == InitParallel /\ [][NextParallel]_vars

(***************************************************************************)
(* _run_parallel with its heartbeat thread                                 *)
(***************************************************************************)

\* An environment in which the second adapter raises, the fifth reports a
\* missing tool and the others report findings.
MixedOutcomes(task_list) ==
    [i \in 1..Len(task_list) |->
        CHOOSE o \in AdapterOutcomes(task_list[i]) :
            CASE i = 2  -> o.kind = "exception"
              [] i = 5  -> o.kind = "result" /\ ~o.r.success
              [] OTHER  -> o.kind = "result" /\ o.r.findings_count > 0]

\* Faulty variant: the comprehension keeps every label.
PendingAlways(label, completed) == TRUE

\* "label not in completed_labels" in the comprehension of heartbeat()
Pending(label, completed) == label \notin completed

\* done_event.wait(timeout=30) returned False: a round of the loop begins.
HbTimeout ==
    /\ hb.pc = "wait"
    /\ ~done_event
    /\ hb' = [pc |-> "scan", k |-> 1, pending |-> <<>>, began |-> completed_labels]
    /\ UNCHANGED <<tasks, adapter_out, fut, futval, results, completed_labels>>
    /\ UNCHANGED <<returned, pphase, done_event, hb_msg, notParVars>>

\* One iteration of "[label for label, _, _ in tasks if label not in
\* completed_labels]": the main thread may add labels between two of them.
HbScan ==
    /\ hb.pc = "scan"
    /\ hb.k <= Len(tasks)
    /\ hb' = [hb EXCEPT
                !.k = hb.k + 1,
                !.pending = IF Pending(tasks[hb.k].label, completed_labels)
                            THEN Append(hb.pending, tasks[hb.k].label)
                            ELSE hb.pending]
    /\ UNCHANGED <<tasks, adapter_out, fut, futval, results, completed_labels>>
    /\ UNCHANGED <<returned, pphase, done_event, hb_msg, notParVars>>

\* "if pending: print(... waiting on: ...)", then back into the wait.
HbPrint ==
    /\ hb.pc = "scan"
    /\ hb.k > Len(tasks)
    /\ hb_msg' = IF hb.pending # <<>>
                 THEN [printed |-> TRUE, labels |-> hb.pending,
                       began |-> hb.began, at |-> completed_labels]
                 ELSE hb_msg
    /\ hb' = HbWaiting
    /\ UNCHANGED <<tasks, adapter_out, fut, futval, results, completed_labels>>
    /\ UNCHANGED <<returned, pphase, done_event, notParVars>>

\* done_event.wait(timeout=30) returned True: the loop and the thread end.
HbStop ==
    /\ hb.pc = "wait"
    /\ done_event
    /\ hb' = [HbWaiting EXCEPT !.pc = "stopped"]
    /\ UNCHANGED <<tasks, adapter_out, fut, futval, results, completed_labels>>
    /\ UNCHANGED <<returned, pphase, done_event, hb_msg, notParVars>>

NextHeartbeat ==
    \/ \E i \in 1..Len(tasks) : StartTask(i)
    \/ \E i \in 1..Len(tasks) : FinishTask(i)
    \/ \E i \in 1..Len(tasks) : Collect(i)
    \/ SetDone
    \/ ReturnResults
    \/ HbTimeout
    \/ HbScan
    \/ HbPrint
    \/ HbStop

\* The worker threads, the main thread and the heartbeat thread all get to
\* run, and every adapter call ends (each _run has a timeout); whether 30
\* seconds pass before done_event is set is left open.
PoolFairness ==
    /\ WF_vars(\E i \in 1..Len(tasks) : StartTask(i))
    /\ WF_vars(\E i \in 1..Len(tasks) : FinishTask(i))
    /\ WF_vars(\E i \in 1..Len(tasks) : Collect(i))
    /\ WF_vars(SetDone)

InitHeartbeat ==
    /\ \E t \in {l \in SuiteTaskLists : Len(l) <= MaxTasks} :
          Submitted(t, MixedOutcomes(t))
    /\ OthersIdle("parallel")

SpecHeartbeat ==
    /\ InitHeartbeat
    /\ [][NextHeartbeat]_vars
    /\ PoolFairness
    /\ WF_vars(HbScan) /\ WF_vars(HbPrint) /\ WF_vars(HbStop)

(***************************************************************************)
(* _run_parallel with more tasks than workers                              *)
(***************************************************************************)

\* run_full_suite for a PHP project without JavaScript and CSS: the
\* shortest task list of a suite that is longer than the pool is wide.
PoolTasks == FullSuiteTasks(TRUE, TRUE, FALSE, FALSE, 5)

InitPool ==
    /\ Submitted(PoolTasks, MixedOutcomes(PoolTasks))
    /\ OthersIdle("parallel")

SpecPool == InitPool /\ [][NextParallel]_vars /\ PoolFairness

(***************************************************************************)
(* Claims about _run_parallel                                              *)
(***************************************************************************)

\* The AnalyzerResult task i must be represented by in the returned list.
ExpectedResult(i) ==
    IF futval[i].kind = "result"
    THEN futval[i].r
    ELSE AnalyzerResult(tasks[i].label, FALSE, 0, "", futval[i].text, "")

\* C4: _run_parallel returns exactly one AnalyzerResult per submitted task,
\* whatever the completion order and whichever tasks succeed, report
\* success=false or raise; a task that raised is represented by a
\* success=false result with the exception text, next to the others.
C4_OneResultPerTask ==
    pphase = "returned" =>
        /\ Len(returned) = Len(tasks)
        /\ \E perm \in [1..Len(tasks) -> 1..Len(tasks)] :
              /\ \A i, j \in 1..Len(tasks) : perm[i] = perm[j] => i = j
              /\ \A i \in 1..Len(tasks) : returned[perm[i]] = ExpectedResult(i)
        /\ \A i \in 1..Len(tasks) :
              futval[i].kind = "exception" =>
                  \E k \in 1..Len(returned) :
                      /\ returned[k].tool = tasks[i].label
                      /\ ~returned[k].success
                      /\ returned[k].error = futval[i].text

\* Three tasks returned: one raised, one reported success=false, one succeeded.
C4_Witness ==
    /\ pphase = "returned"
    /\ Len(tasks) = 3
    /\ \E i, j, k \in 1..3 :
          /\ futval[i].kind = "exception"
          /\ futval[j].kind = "result" /\ ~futval[j].r.success
          /\ futval[k].kind = "result" /\ futval[k].r.success

\* C5: the returned list is sorted by tool name and is the same list for
\* every completion order: it is the one strictly increasing arrangement of
\* the per-task results.
C5_SortedDeterministic ==
    pphase = "returned" =>
        /\ \A k \in 1..(Len(returned) - 1) :
              StrLess(returned[k].tool, returned[k + 1].tool)
        /\ {returned[k] : k \in 1..Len(returned)}
              = {ExpectedResult(i) : i \in 1..Len(tasks)}
        /\ Len(returned) = Len(tasks)

\* A run whose collection order was not the sorted order and in which a
\* task failed.
C5_Witness ==
    /\ pphase = "returned"
    /\ results # returned
    /\ \E i \in 1..Len(tasks) : futval[i].kind = "exception"

\* Every future was collected and its adapter's outcome is in results.
Drained ==
    /\ \A i \in 1..Len(tasks) : fut[i] = "collected" /\ futval[i] = adapter_out[i]
    /\ Len(results) = Len(tasks)
    /\ completed_labels = {tasks[i].label : i \in 1..Len(tasks)}

\* C29: at no point do more than 6 adapter tasks execute at once, also
\* when more than 6 tasks were submitted, and in the end every submitted
\* task has been executed and collected and the executor block is left.
C29_BoundedPoolDrains ==
    /\ [](Cardinality(Running) <= MAX_WORKERS)
    /\ <>(done_event /\ Drained)

\* All six workers are busy while a submitted task still waits in the
\* queue and an earlier one has already been collected.
C29_Witness ==
    /\ Len(tasks) > MAX_WORKERS
    /\ Cardinality(Running) = MAX_WORKERS
    /\ \E i \in 1..Len(tasks) : fut[i] = "queued"
    /\ \E i \in 1..Len(tasks) : fut[i] = "collected"

AllLabels == {tasks[i].label : i \in 1..Len(tasks)}

MessageLabels == {hb_msg.labels[n] : n \in 1..Len(hb_msg.labels)}

\* The returned list is the sorted list of the per-task results.
ReturnedAsExpected ==
    pphase = "returned" =>
        /\ Len(returned) = Len(tasks)
        /\ \A i \in 1..Len(tasks) : \E k \in 1..Len(returned) : returned[k] = ExpectedResult(i)
        /\ \A k \in 1..(Len(returned) - 1) : StrLess(returned[k].tool, returned[k + 1].tool)

\* C30 as stated: the returned list does not depend on the heartbeat, a
\* heartbeat line lists only labels of tasks not yet collected as it is
\* printed, and no line is printed once all tasks have been collected.
C30_HeartbeatListsUncollected ==
    /\ ReturnedAsExpected
    /\ hb_msg.printed =>
          /\ MessageLabels \cap hb_msg.at = {}
          /\ hb_msg.at # AllLabels

\* C30 (amended): the heartbeat thread never changes results,
\* completed_labels or the futures, so the returned list is the sorted
\* list of the per-task results under every interleaving; a heartbeat line
\* lists only labels of tasks that were not yet collected when its round
\* began, and no round that begins after the last collection prints a
\* line; once done_event is set the heartbeat thread stops.
C30_HeartbeatReadsOnly ==
    /\ []ReturnedAsExpected
    /\ [][(hb' # hb \/ hb_msg' # hb_msg) =>
            UNCHANGED <<results, completed_labels, fut, futval, returned, done_event>>]_vars
    /\ [](hb_msg.printed =>
            /\ hb_msg.labels # <<>>
            /\ MessageLabels \cap hb_msg.began = {}
            /\ hb_msg.began # AllLabels)
    /\ (done_event ~> hb.pc = "stopped")

\* The heartbeat has stopped after a run in which it printed a line that
\* listed some of the tasks while others had been collected, and a task
\* it listed was collected before the line was out.
C30_Witness ==
    /\ pphase = "returned"
    /\ hb.pc = "stopped"
    /\ hb_msg.printed
    /\ hb_msg.began # {}
    /\ MessageLabels \cap hb_msg.at # {}

(***************************************************************************)
(* RESULT COMPRESSOR: the dedup block of run_phpstan (analyzers.py)        *)
(***************************************************************************)

\* Stands for " - " written with U+2014 (em dash), the separator the
\* adapter puts between location and message.
DASH == " -- "

DEDUP_THRESHOLD == 10

MAX_EXAMPLES == 3

\* parts = line.split(DASH, 1); msg = parts[1] if len(parts) > 1 else line.strip()
LineMsg(line) ==
    LET i == FirstIndex(line, DASH)
    IN  IF i > 0 THEN SubSeq(line, i + Len(DASH), Len(line)) ELSE Strip(line)

\* loc = parts[0].strip() if len(parts) > 1 else ""
LineLoc(line) ==
    LET i == FirstIndex(line, DASH)
    IN  IF i > 0 THEN Strip(SubSeq(line, 1, i - 1)) ELSE ""

\* error_types (a Counter) and error_examples (a defaultdict of lists), as
\* one sequence of entries in first-seen order: the body of the first loop.
RECURSIVE TallyLine(_, _, _)
TallyLine(entries, msg, loc) ==
    IF entries = <<>>
    THEN << [msg |-> msg, count |-> 1, examples |-> <<loc>>] >>
    ELSE IF Head(entries).msg = msg
    THEN << [Head(entries) EXCEPT
                !.count = @ + 1,
                !.examples = IF Len(@) < MAX_EXAMPLES THEN Append(@, loc) ELSE @] >>
         \o Tail(entries)
    ELSE << Head(entries) >> \o TallyLine(Tail(entries), msg, loc)

RECURSIVE Tally(_, _)
Tally(entries, lines) ==
    IF lines = <<>> THEN entries
    ELSE Tally(TallyLine(entries, LineMsg(Head(lines)), LineLoc(Head(lines))),
               Tail(lines))

\* Counter.most_common(): sorted(items, key=count, reverse=True), a stable
\* sort: e goes behind every entry whose count is not smaller.
RECURSIVE InsertByCount(_, _)
InsertByCount(sorted, e) ==
    IF sorted = <<>> THEN <<e>>
    ELSE IF e.count > Head(sorted).count THEN <<e>> \o sorted
    ELSE <<Head(sorted)>> \o InsertByCount(Tail(sorted), e)

RECURSIVE MostCommonInto(_, _)
MostCommonInto(sorted, entries) ==
    IF entries = <<>> THEN sorted
    ELSE MostCommonInto(InsertByCount(sorted, Head(entries)), Tail(entries))

MostCommon(entries) == MostCommonInto(<<>>, entries)

\* Faulty variant: only lines that carry a location are matched.
LineMatchesLocatedOnly(line, msg) == Contains(line, DASH \o msg)

\* if f"{DASH}{msg}" in line or (msg in line and DASH not in line)
LineMatches(line, msg) ==
    \/ Contains(line, DASH \o msg)
    \/ (Contains(line, msg) /\ ~Contains(line, DASH))

RECURSIVE MatchingLines(_, _)
MatchingLines(lines, msg) ==
    IF lines = <<>> THEN <<>>
    ELSE (IF LineMatches(Head(lines), msg) THEN <<Head(lines)>> ELSE <<>>)
         \o MatchingLines(Tail(lines), msg)

SummaryLine(count, msg) == "  [" \o IntStr(count) \o "x] " \o msg

ExamplesLine(examples) == "         e.g. " \o Join(examples, ", ")

\* Faulty variant: a message is collapsed once it reaches the threshold.
CollapsesAtThreshold(count) == count >= DEDUP_THRESHOLD

\* if count > DEDUP_THRESHOLD
Collapses(count) == count > DEDUP_THRESHOLD

\* The lines one message contributes: the body of the second loop.
EntryLines(e, lines) ==
    IF Collapses(e.count)
    THEN << SummaryLine(e.count, e.msg), ExamplesLine(e.examples) >>
    ELSE MatchingLines(lines, e.msg)

RECURSIVE EmitEntries(_, _)
EmitEntries(entries, lines) ==
    IF entries = <<>> THEN <<>>
    ELSE EntryLines(Head(entries), lines) \o EmitEntries(Tail(entries), lines)

\* compact_lines as the dedup block builds it from all_lines
Compress(lines) == EmitEntries(MostCommon(Tally(<<>>, lines)), lines)

(***************************************************************************)
(* Compressor: inputs and actions                                          *)
(***************************************************************************)

MaxLines == 13

\* Message texts of one PHPStan report: a message and a longer one that
\* starts with it, two unrelated messages, and one message next to general
\* (file-less) errors.
MessagePools ==
    { [msgs |-> {"undef", "undef $x"}, general |-> {}],
      [msgs |-> {"undef", "dead"},     general |-> {}],
      [msgs |-> {"undef"},             general |-> {"oom"}] }

InitDedup ==
    /\ msg_pool \in MessagePools
    /\ all_lines = <<>>
    /\ compact_lines = <<>>
    /\ dphase = "collect"
    /\ OthersIdle("dedup")

HasGeneral == \E k \in 1..Len(all_lines) : ~Contains(all_lines[k], DASH)

\* all_lines.append(f"  {rp}:{line} -- {message}"): the k-th finding of the
\* report sits at its own location f:k.
AddFinding(m) ==
    /\ dphase = "collect"
    /\ Len(all_lines) < MaxLines
    /\ ~HasGeneral
    /\ m \in msg_pool.msgs
    /\ all_lines' = Append(all_lines,
                           "  f:" \o IntStr(Len(all_lines) + 1) \o DASH \o m)
    /\ UNCHANGED <<msg_pool, compact_lines, dphase, notDedupVars>>

\* all_lines.append(f"  [General] {e}"), after the per-file findings
AddGeneral(e) ==
    /\ dphase = "collect"
    /\ Len(all_lines) < MaxLines
    /\ e \in msg_pool.general
    /\ all_lines' = Append(all_lines, "  [General] " \o e)
    /\ UNCHANGED <<msg_pool, compact_lines, dphase, notDedupVars>>

\* The dedup block runs on the collected lines.
RunDedup ==
    /\ dphase = "collect"
    /\ compact_lines' = Compress(all_lines)
    /\ dphase' = "compacted"
    /\ UNCHANGED <<msg_pool, all_lines, notDedupVars>>

NextDedup ==
    \/ \E m \in {"undef", "undef $x", "dead"} : AddFinding(m)
    \/ \E e \in {"oom"} : AddGeneral(e)
    \/ RunDedup

SpecDedup == InitDedup /\ [][NextDedup]_vars

(***************************************************************************)
(* Claims about the compressor                                             *)
(***************************************************************************)

RECURSIVE LinesOfMsg(_, _)
LinesOfMsg(lines, m) ==
    IF lines = <<>> THEN <<>>
    ELSE (IF LineMsg(Head(lines)) = m THEN <<Head(lines)>> ELSE <<>>)
         \o LinesOfMsg(Tail(lines), m)

LineSet(lines) == {lines[k] : k \in 1..Len(lines)}

InputMsgs == {LineMsg(all_lines[k]) : k \in 1..Len(all_lines)}

FirstLocs(m) ==
    LET ls == LinesOfMsg(all_lines, m)
    IN  [k \in 1..MAX_EXAMPLES |-> LineLoc(ls[k])]

\* C9: a message occurring exactly 10 times is not collapsed, all its 10
\* lines are emitted; a message occurring 11 times or more is replaced by
\* exactly one "[Nx] message" line, followed by a line with exactly 3
\* example locations, and none of its individual lines is left.
C9_DedupThreshold ==
    dphase = "compacted" =>
        \A m \in InputMsgs :
            LET own == LinesOfMsg(all_lines, m)
                n   == Len(own)
            IN  /\ n = DEDUP_THRESHOLD =>
                    /\ LineSet(own) \subseteq LineSet(compact_lines)
                    /\ SummaryLine(n, m) \notin LineSet(compact_lines)
                /\ n > DEDUP_THRESHOLD =>
                    /\ Cardinality({k \in 1..Len(compact_lines) :
                                       compact_lines[k] = SummaryLine(n, m)}) = 1
                    /\ \A k \in 1..Len(compact_lines) :
                          compact_lines[k] = SummaryLine(n, m) =>
                              /\ k < Len(compact_lines)
                              /\ compact_lines[k + 1] = ExamplesLine(FirstLocs(m))
                    /\ LineSet(own) \cap LineSet(compact_lines) = {}

\* How often a line stands in a list of lines
Occurrences(lines, line) ==
    Cardinality({k \in 1..Len(lines) : lines[k] = line})

\* C27: in the compressor's output every finding line whose message occurs
\* at most 10 times stands exactly once (as often as in the input) and
\* unmodified, and for a message that occurs more than 10 times no
\* individual location line is left, also when one message text is part of
\* another message's line.
C27_EachLineOnce ==
    dphase = "compacted" =>
        \A m \in InputMsgs :
            LET own == LinesOfMsg(all_lines, m)
            IN  IF Len(own) <= DEDUP_THRESHOLD
                THEN \A line \in LineSet(own) :
                        Occurrences(compact_lines, line)
                            = Occurrences(all_lines, line)
                ELSE LineSet(own) \cap LineSet(compact_lines) = {}

\* C10 as stated: compressing the compressor's output again yields the
\* same sequence of lines.
C10_Idempotent ==
    dphase = "compacted" => Compress(compact_lines) = compact_lines

CollapsedMsgs ==
    {m \in InputMsgs : Collapses(Len(LinesOfMsg(all_lines, m)))}

\* C10 (amended): a second run never collapses a summary line again: every
\* "[Nx] message" line of the first output is a line of the second output.
C10_SummaryLinesSurvive ==
    dphase = "compacted" =>
        \A m \in CollapsedMsgs :
            LET summary == SummaryLine(Len(LinesOfMsg(all_lines, m)), m)
            IN  /\ summary \in LineSet(compact_lines)
                /\ summary \in LineSet(Compress(compact_lines))

\* An output with a summary line that the second run emits again, but in
\* another place: the second output differs from the first.
C10_Witness ==
    /\ dphase = "compacted"
    /\ CollapsedMsgs # {}
    /\ LineSet(Compress(compact_lines)) = LineSet(compact_lines)
    /\ Compress(compact_lines) # compact_lines

(***************************************************************************)
(* TOOL ADAPTERS (analyzers.py): _run, _find_bin and the run_* functions   *)
(***************************************************************************)

\* The repository under review (the adapters' repo argument).
REPO == "/repo"

\* a or b on strings
Or(a, b) == IF a # "" THEN a ELSE b

\* s[i], "" outside the string
At(s, i) == IF i >= 1 /\ i <= Len(s) THEN SubSeq(s, i, i) ELSE ""

\* k occurs in s at index i
MatchAt(s, i, k) == i >= 1 /\ i + Len(k) - 1 <= Len(s) /\ SubSeq(s, i, i + Len(k) - 1) = k

\* s.count(k): occurrences from the left, not overlapping
RECURSIVE CountSub(_, _)
CountSub(s, k) ==
    LET i == FirstIndex(s, k)
    IN  IF i = 0 THEN 0 ELSE 1 + CountSub(SubSeq(s, i + Len(k), Len(s)), k)

IsDigit(c) == \E i \in 1..Len(Digits) : SubSeq(Digits, i, i) = c

\* int(s) for a string of digits
RECURSIVE ParseInt(_)
ParseInt(s) ==
    IF Len(s) = 0 THEN 0
    ELSE ParseInt(SubSeq(s, 1, Len(s) - 1)) * 10
         + (FirstIndex(Digits, SubSeq(s, Len(s), Len(s))) - 1)

\* The last index of the run of digits that starts at i.
DigitRunEnd(s, i) ==
    CHOOSE j \in i..Len(s) :
        /\ \A k \in i..j : IsDigit(At(s, k))
        /\ ~IsDigit(At(s, j + 1))

\* re.search(pre + r"(\d+)" + post, s): int(match.group(1)) of the leftmost
\* match, -1 when there is no match. post does not begin with a digit.
SearchCount(s, pre, post) ==
    LET hits == {i \in 1..Len(s) :
                    /\ MatchAt(s, i, pre)
                    /\ IsDigit(At(s, i + Len(pre)))
                    /\ MatchAt(s, DigitRunEnd(s, i + Len(pre)) + 1, post)}
    IN  IF hits = {} THEN -1
        ELSE LET i == CHOOSE h \in hits : \A g \in hits : h <= g
             IN  ParseInt(SubSeq(s, i + Len(pre), DigitRunEnd(s, i + Len(pre))))

\* os.path.relpath(p, repo) for an absolute path p
Relpath(p, repo) ==
    IF p = repo THEN "."
    ELSE IF StartsWith(p, repo \o "/") THEN SubSeq(p, Len(repo) + 2, Len(p))
    ELSE ".." \o p

\* sum(ns)
RECURSIVE SumSeq(_)
SumSeq(ns) == IF ns = <<>> THEN 0 ELSE Head(ns) + SumSeq(Tail(ns))

(***************************************************************************)
(* What the tools print: JSON documents, and json.loads on them.  A JSON   *)
(* object is a record read with Get; an object the code walks with         *)
(* .items() is the sequence of its <<key, value>> pairs in document order, *)
(* tagged with its type.                                                   *)
(***************************************************************************)

PARALLEL_LINT_FINDINGS ==
    "{\"results\":{\"errors\":[{\"file\":\"/repo/inc/a.php\",\"line\":3,\"message\":\"Parse error\"}]}}"

PARALLEL_LINT_CLEAN ==
    "{\"results\":{\"errors\":[]}}"

PHPSTAN_FINDINGS ==
    "{\"totals\":{\"errors\":1,\"file_errors\":2},\"files\":{\"/repo/inc/a.php\":{\"errors\":2,\"messages\":[{\"message\":\"undef\",\"line\":3},{\"message\":\"undef\",\"line\":7}]}},\"errors\":[\"oom\"]}"

PHPSTAN_CLEAN ==
    "{\"totals\":{\"errors\":0,\"file_errors\":0},\"files\":[],\"errors\":[]}"

PSALM_FINDINGS ==
    "[{\"severity\":\"error\",\"file_path\":\"/repo/inc/a.php\",\"line_from\":3,\"message\":\"TaintedSql\"}]"

PHPCS_FINDINGS ==
    "{\"totals\":{\"errors\":1,\"warnings\":1},\"files\":{\"/repo/inc/a.php\":{\"messages\":[{\"message\":\"Missing doc comment\",\"source\":\"Squiz.Commenting\",\"type\":\"ERROR\",\"line\":3},{\"message\":\"Line too long\",\"type\":\"WARNING\",\"line\":7}]}}}"

PHPCS_CLEAN ==
    "{\"totals\":{\"errors\":0,\"warnings\":0},\"files\":{}}"

PHPMD_FINDINGS ==
    "{\"files\":[{\"file\":\"/repo/inc/a.php\",\"violations\":[{\"beginLine\":3,\"rule\":\"LongMethod\",\"description\":\"Too long. \",\"priority\":3}]}]}"

PHPMD_CLEAN ==
    "{\"files\":[]}"

COMPOSER_FINDINGS ==
    "{\"advisories\":{\"vendor/pkg\":[{\"title\":\"RCE\",\"cve\":\"CVE-2024-1\",\"severity\":\"high\"}]}}"

COMPOSER_CLEAN ==
    "{\"advisories\":{}}"

ESLINT_FINDINGS ==
    "[{\"filePath\":\"/repo/assets/js/app.js\",\"messages\":[{\"ruleId\":\"no-undef\",\"severity\":2,\"message\":\"x is not defined\",\"line\":3}],\"errorCount\":1,\"warningCount\":0}]"

STYLELINT_FINDINGS ==
    "[{\"source\":\"/repo/style.css\",\"warnings\":[{\"line\":3,\"rule\":\"color-no-invalid-hex\",\"severity\":\"error\",\"text\":\"Unexpected invalid hex color\"}]}]"

NPM_FINDINGS ==
    "{\"vulnerabilities\":{\"lodash\":{\"severity\":\"high\",\"via\":[{\"title\":\"Prototype Pollution\"}]}}}"

NPM_CLEAN ==
    "{\"vulnerabilities\":{}}"

EMPTY_LIST ==
    "[]"

JSON_NULL ==
    "null"

\* WalterChecks.json documents (review.py load_config, docstring schema)
CONFIG_FULL ==
    "{\"name\":\"My Plugin\",\"profile\":\"laravel\",\"root\":\"plugin/\",\"exclude\":[\"lib/legacy/\"],\"phpstan_level\":7}"

CONFIG_PROFILE ==
    "{\"profile\":\"wp-plugin\"}"

CONFIG_LEVEL ==
    "{\"phpstan_level\":0,\"colour\":\"blue\"}"

EMPTY_OBJECT ==
    "{}"

JSON_STRING ==
    "\"laravel\""

\* A report cut off in the middle (the tool was killed, or ran out of memory).
Truncated(doc) == Prefix(doc, 12)

EmptyDict == [k \in {} |-> 0]

EmptyItems == [t |-> "dict", items |-> <<>>]

\* d.get(k, default)
Get(d, k, default) == IF k \in DOMAIN d THEN d[k] ELSE default

\* json.loads(s): the value, or the JSONDecodeError it raises
JsonLoads(s) ==
    CASE s = PARALLEL_LINT_FINDINGS ->
            [t |-> "dict",
            v |-> [results |-> [errors |-> <<[file |-> "/repo/inc/a.php",
            line |-> 3, message |-> "Parse error"]>>]]]
      [] s = PARALLEL_LINT_CLEAN ->
            [t |-> "dict", v |-> [results |-> [errors |-> <<>>]]]
      [] s = PHPSTAN_FINDINGS ->
            [t |-> "dict", v |-> [totals |-> [errors |-> 1,
            file_errors |-> 2], files |-> [t |-> "dict",
            items |-> <<<<"/repo/inc/a.php", [errors |-> 2,
            messages |-> <<[message |-> "undef", line |-> 3],
            [message |-> "undef", line |-> 7]>>]>>>>],
            errors |-> <<"oom">>]]
      [] s = PHPSTAN_CLEAN ->
            [t |-> "dict", v |-> [totals |-> [errors |-> 0,
            file_errors |-> 0], files |-> [t |-> "list", items |-> <<>>],
            errors |-> <<>>]]
      [] s = PSALM_FINDINGS ->
            [t |-> "list", v |-> <<[severity |-> "error",
            file_path |-> "/repo/inc/a.php", line_from |-> 3,
            message |-> "TaintedSql"]>>]
      [] s = PHPCS_FINDINGS ->
            [t |-> "dict", v |-> [totals |-> [errors |-> 1,
            warnings |-> 1], files |-> [t |-> "dict",
            items |-> <<<<"/repo/inc/a.php",
            [messages |-> <<[message |-> "Missing doc comment",
            source |-> "Squiz.Commenting", type |-> "ERROR", line |-> 3],
            [message |-> "Line too long", type |-> "WARNING",
            line |-> 7]>>]>>>>]]]
      [] s = PHPCS_CLEAN ->
            [t |-> "dict", v |-> [totals |-> [errors |-> 0,
            warnings |-> 0], files |-> [t |-> "dict", items |-> <<>>]]]
      [] s = PHPMD_FINDINGS ->
            [t |-> "dict", v |-> [files |-> <<[file |-> "/repo/inc/a.php",
            violations |-> <<[beginLine |-> 3, rule |-> "LongMethod",
            description |-> "Too long. ", priority |-> 3]>>]>>]]
      [] s = PHPMD_CLEAN ->
            [t |-> "dict", v |-> [files |-> <<>>]]
      [] s = COMPOSER_FINDINGS ->
            [t |-> "dict", v |-> [advisories |-> [t |-> "dict",
            items |-> <<<<"vendor/pkg", <<[title |-> "RCE",
            cve |-> "CVE-2024-1", severity |-> "high"]>>>>>>]]]
      [] s = COMPOSER_CLEAN ->
            [t |-> "dict", v |-> [advisories |-> [t |-> "dict",
            items |-> <<>>]]]
      [] s = ESLINT_FINDINGS ->
            [t |-> "list", v |-> <<[filePath |-> "/repo/assets/js/app.js",
            messages |-> <<[ruleId |-> "no-undef", severity |-> 2,
            message |-> "x is not defined", line |-> 3]>>,
            errorCount |-> 1, warningCount |-> 0]>>]
      [] s = STYLELINT_FINDINGS ->
            [t |-> "list", v |-> <<[source |-> "/repo/style.css",
            warnings |-> <<[line |-> 3, rule |-> "color-no-invalid-hex",
            severity |-> "error",
            text |-> "Unexpected invalid hex color"]>>]>>]
      [] s = NPM_FINDINGS ->
            [t |-> "dict", v |-> [vulnerabilities |-> [t |-> "dict",
            items |-> <<<<"lodash", [severity |-> "high",
            via |-> <<[title |-> "Prototype Pollution"]>>]>>>>]]]
      [] s = NPM_CLEAN ->
            [t |-> "dict", v |-> [vulnerabilities |-> [t |-> "dict",
            items |-> <<>>]]]
      [] s = EMPTY_LIST ->
            [t |-> "list", v |-> <<>>]
      [] s = JSON_NULL ->
            [t |-> "null"]
      [] s = CONFIG_FULL ->
            [t |-> "dict", v |-> [name |-> "My Plugin", profile |-> "laravel",
            root |-> "plugin/", exclude |-> <<"lib/legacy/">>,
            phpstan_level |-> 7]]
      [] s = CONFIG_PROFILE ->
            [t |-> "dict", v |-> [profile |-> "wp-plugin"]]
      [] s = CONFIG_LEVEL ->
            [t |-> "dict", v |-> [phpstan_level |-> 0, colour |-> "blue"]]
      [] s = EMPTY_OBJECT ->
            [t |-> "dict", v |-> EmptyDict]
      [] s = JSON_STRING ->
            [t |-> "str", v |-> "laravel"]
      [] OTHER -> [t |-> "error"]

(***************************************************************************)
(* _run and _find_bin                                                      *)
(***************************************************************************)

\* What an adapter call produced: the AnalyzerResult it returned, or the
\* exception it raised (the shapes a future of _run_parallel holds).
Result(r) == [kind |-> "result", r |-> r]

Raise(text) == [kind |-> "exception", text |-> text]

\* type(x).__name__ of a parsed JSON value
PyType(t) == IF t = "null" THEN "NoneType" ELSE t

\* str(AttributeError) for x.attr on a value of type t
NoAttribute(t, attr) ==
    "'" \o PyType(t) \o "' object has no attribute '" \o attr \o "'"

\* _find_bin(tool, repo): the path of the binary, "" for None.  vendor says
\* that vendor/bin/<tool> is a file of the repository, on_path that
\* shutil.which finds the tool.
FindBin(tool, vendor, on_path) ==
    IF vendor THEN REPO \o "/vendor/bin/" \o tool
    ELSE IF on_path THEN "/usr/local/bin/" \o tool
    ELSE ""

\* How the operating system treats the command: os.path.isfile does not
\* ask whether a vendor/bin file may be executed, shutil.which does.
VendorLaunch(vendor, exec) == IF vendor /\ ~exec THEN "denied" ELSE "ok"

\* One call of _run: cmd[0], the argument that tells the calls of one
\* adapter apart, the timeout, and what the process does.
RunCall(cmd0, args, timeout, launch, proc) ==
    [cmd0 |-> cmd0, args |-> args, timeout |-> timeout, launch |-> launch,
     proc |-> proc]

\* _run(cmd, cwd, timeout): (returncode, stdout, stderr); the two caught
\* exceptions become a tuple, any other OSError of subprocess.run leaves
\* _run as an exception.
Run(call) ==
    CASE call.launch = "denied" ->
            [raised |-> TRUE,
             text |-> "[Errno 13] Permission denied: '" \o call.cmd0 \o "'"]
      [] call.launch = "notfound" ->
            [raised |-> FALSE, code |-> -1, stdout |-> "",
             stderr |-> "Not found: " \o call.cmd0]
      [] call.launch = "ok" /\ call.proc.kind = "timeout" ->
            [raised |-> FALSE, code |-> -1, stdout |-> "",
             stderr |-> "Timed out after " \o IntStr(call.timeout) \o "s"]
      [] call.launch = "ok" /\ call.proc.kind = "exit" ->
            [raised |-> FALSE, code |-> call.proc.code,
             stdout |-> call.proc.stdout, stderr |-> call.proc.stderr]

\* An adapter that returned before it called _run.
NotRun(r) == [out |-> Result(r), runs |-> <<>>]

\* An adapter that calls _run once and hands the tuple to Parse.
Ran(call, Parse(_, _, _)) ==
    LET r == Run(call)
    IN  [out  |-> IF r.raised THEN Raise(r.text)
                  ELSE Parse(r.code, r.stdout, r.stderr),
         runs |-> <<call>>]

\* m.get(key, '?') inside an f-string, for a line number
LineStr(m, key) == IF key \in DOMAIN m THEN IntStr(m[key]) ELSE "?"

NoArg == ""

(***************************************************************************)
(* PHP tools                                                               *)
(***************************************************************************)

ParallelLintLine(e) ==
    "  " \o Relpath(Get(e, "file", "?"), REPO) \o ":" \o LineStr(e, "line")
    \o DASH \o Get(e, "message", "Syntax error")

\* run_parallel_lint, from "try:" on
ParallelLintParse(code, stdout, stderr) ==
    LET name == ToolName("run_parallel_lint", NoArg)
        data == IF stdout # "" THEN JsonLoads(stdout)
                ELSE [t |-> "dict", v |-> EmptyDict]
    IN  IF data.t = "error"
        THEN Result(AnalyzerResult(name, TRUE,
                 CountSub(stderr, "Parse error") + CountSub(stderr, "syntax error"),
                 Or(stderr, Or(stdout, "No syntax errors.")), "", ""))
        ELSE IF data.t # "dict" THEN Raise(NoAttribute(data.t, "get"))
        ELSE LET errors == Get(Get(data.v, "results", EmptyDict), "errors", <<>>)
                 n      == Len(errors)
                 lines  == [k \in 1..n |-> ParallelLintLine(errors[k])]
             IN  Result(AnalyzerResult(name, TRUE, n,
                     Or(Join(lines, "\n"), "No syntax errors."), "",
                     IntStr(n) \o " PHP syntax error(s)."))

run_parallel_lint(on_path, proc) ==
    LET name == ToolName("run_parallel_lint", NoArg)
    IN  IF ~on_path
        THEN NotRun(AnalyzerResult(name, FALSE, 0, "",
                 "Not installed (composer global require php-parallel-lint/php-parallel-lint)",
                 ""))
        ELSE Ran(RunCall("parallel-lint", "--json", 60, "ok", proc),
                 ParallelLintParse)

PhpstanFileLines(fp, fd) ==
    LET ms == Get(fd, "messages", <<>>)
    IN  [k \in 1..Len(ms) |->
            "  " \o Relpath(fp, REPO) \o ":" \o LineStr(ms[k], "line")
            \o DASH \o Get(ms[k], "message", "")]

\* run_phpstan, from "if not stdout or not stdout.strip().startswith" on
PhpstanParse(level, code, stdout, stderr) ==
    LET name == ToolName("run_phpstan", level)
    IN  IF stdout = "" \/ ~StartsWith(Strip(stdout), "{")
        THEN LET error_msg ==
                     Prefix(Strip(Or(stderr, Or(stdout, "Unknown error"))), 500)
             IN  Result(AnalyzerResult(name, FALSE, 0, error_msg,
                     "PHPStan error (check config): " \o Prefix(error_msg, 100),
                     ""))
        ELSE LET data == JsonLoads(stdout)
             IN  IF data.t = "error"
                 THEN Result(AnalyzerResult(name, FALSE, 0, Or(stdout, stderr),
                          "PHPStan returned invalid JSON", ""))
                 ELSE LET totals == Get(data.v, "totals", EmptyDict)
                          n      == Get(totals, "file_errors", 0)
                                    + Get(totals, "errors", 0)
                          fs     == Get(data.v, "files", EmptyItems)
                          es     == Get(data.v, "errors", <<>>)
                          lines  ==
                              Flatten([k \in 1..Len(fs.items) |->
                                  PhpstanFileLines(fs.items[k][1], fs.items[k][2])])
                              \o [k \in 1..Len(es) |-> "  [General] " \o es[k]]
                          compact == Compress(lines)
                          output == IF compact # <<>> THEN Join(compact, "\n")
                                    ELSE "No issues found."
                      IN  IF fs.t # "dict" THEN Raise(NoAttribute(fs.t, "items"))
                          ELSE Result(AnalyzerResult(name, TRUE, n,
                                   Or(output, "No issues found."), "",
                                   IntStr(n) \o " issue(s) at level "
                                   \o IntStr(level) \o "/9 ("
                                   \o IntStr(Len(Tally(<<>>, lines)))
                                   \o " unique error types)."))

run_phpstan(level, vendor, on_path, exec, proc) ==
    LET name == ToolName("run_phpstan", level)
        phpstan_bin == FindBin("phpstan", vendor, on_path)
    IN  IF phpstan_bin = ""
        THEN NotRun(AnalyzerResult(name, FALSE, 0, "", "Not installed", ""))
        ELSE Ran(RunCall(phpstan_bin, "analyse", 180,
                         VendorLaunch(vendor, exec), proc),
                 LAMBDA code, stdout, stderr :
                     PhpstanParse(level, code, stdout, stderr))

PsalmLine(item) ==
    "  [" \o Upper(Get(item, "severity", "error")) \o "] "
    \o Get(item, "file_path", "?") \o ":" \o LineStr(item, "line_from")
    \o DASH \o Get(item, "message", "")

\* run_psalm, from "try:" on
PsalmParse(code, stdout, stderr) ==
    LET name == ToolName("run_psalm", NoArg)
        data == IF stdout # "" THEN JsonLoads(stdout) ELSE [t |-> "list", v |-> <<>>]
    IN  IF data.t = "error"
        THEN Result(AnalyzerResult(name, TRUE, 0, Or(stdout, stderr),
                 "Parse error", ""))
        ELSE LET n     == IF data.t = "list" THEN Len(data.v) ELSE 0
                 lines == IF data.t = "list"
                          THEN [k \in 1..n |-> PsalmLine(data.v[k])]
                          ELSE <<>>
             IN  Result(AnalyzerResult(name, TRUE, n,
                     Or(Join(lines, "\n"), "No issues found."), "",
                     IntStr(n) \o " issue(s) including taint/security analysis."))

\* What "psalm --init . 3" may do, run in the repository: write psalm.xml
\* there and exit with 0, refuse and exit with 1, or hang.  To the adapter's
\* result it is of no consequence: the tuple _run returns for it is dropped.
PsalmInitProcs ==
    {[kind |-> "exit", code |-> 0, stdout |-> "", stderr |-> ""],
     [kind |-> "exit", code |-> 1, stdout |-> "",
      stderr |-> "Could not locate a composer.json"],
     [kind |-> "timeout"]}

run_psalm(vendor, on_path, exec, has_cfg, init_proc, proc1, proc2) ==
    LET name == ToolName("run_psalm", NoArg)
        psalm_bin == FindBin("psalm", vendor, on_path)
        launch == VendorLaunch(vendor, exec)
        init   == RunCall(psalm_bin, "--init", 30, launch, init_proc)
        taint  == RunCall(psalm_bin, "--taint-analysis", 300, launch, proc1)
        plain  == RunCall(psalm_bin, "--output-format=json", 300, launch, proc2)
        before == IF has_cfg THEN <<>> ELSE <<init>>
        r1     == Run(taint)
        r2     == Run(plain)
    IN  IF psalm_bin = ""
        THEN NotRun(AnalyzerResult(name, FALSE, 0, "", "Not installed", ""))
        ELSE IF ~has_cfg /\ Run(init).raised
        THEN [out |-> Raise(Run(init).text), runs |-> <<init>>]
        ELSE IF r1.raised
        THEN [out |-> Raise(r1.text), runs |-> before \o <<taint>>]
        ELSE IF r1.code # 0 /\ Contains(Lower(r1.stderr), "taint")
        THEN [out  |-> IF r2.raised THEN Raise(r2.text)
                       ELSE PsalmParse(r2.code, r2.stdout, r2.stderr),
              runs |-> before \o <<taint, plain>>]
        ELSE [out  |-> PsalmParse(r1.code, r1.stdout, r1.stderr),
              runs |-> before \o <<taint>>]

PhpcsMessageLines(rp, m) ==
    LET lvl == IF Get(m, "type", "") = "ERROR" THEN "ERROR" ELSE "WARN"
        src == Get(m, "source", "")
    IN  << "  [" \o lvl \o "] " \o rp \o ":" \o LineStr(m, "line")
           \o DASH \o Get(m, "message", "") >>
        \o (IF src # "" THEN << "          Rule: " \o src >> ELSE <<>>)

PhpcsFileLines(fp, fd) ==
    LET ms == Get(fd, "messages", <<>>)
    IN  Flatten([k \in 1..Len(ms) |-> PhpcsMessageLines(Relpath(fp, REPO), ms[k])])

\* run_phpcs, from "try:" on
PhpcsParse(standard, code, stdout, stderr) ==
    LET name == ToolName("run_phpcs", standard)
        data == IF stdout # "" THEN JsonLoads(stdout)
                ELSE [t |-> "dict", v |-> EmptyDict]
    IN  IF data.t = "error"
        THEN Result(AnalyzerResult(name, TRUE, 0, Or(stdout, stderr),
                 "Parse error", ""))
        ELSE IF data.t # "dict" THEN Raise(NoAttribute(data.t, "get"))
        ELSE LET t     == Get(data.v, "totals", EmptyDict)
                 errs  == Get(t, "errors", 0)
                 warns == Get(t, "warnings", 0)
                 n     == errs + warns
                 fs    == Get(data.v, "files", EmptyItems)
                 lines == Flatten([k \in 1..Len(fs.items) |->
                              PhpcsFileLines(fs.items[k][1], fs.items[k][2])])
             IN  IF fs.t # "dict" THEN Raise(NoAttribute(fs.t, "items"))
                 ELSE Result(AnalyzerResult(name, TRUE, n,
                          Or(Join(lines, "\n"), "No issues found."), "",
                          IntStr(errs) \o " error(s), " \o IntStr(warns)
                          \o " warning(s)."))

run_phpcs(standard, vendor, on_path, exec, proc) ==
    LET name == ToolName("run_phpcs", standard)
        phpcs_bin == FindBin("phpcs", vendor, on_path)
    IN  IF phpcs_bin = ""
        THEN NotRun(AnalyzerResult(name, FALSE, 0, "", "Not installed", ""))
        ELSE Ran(RunCall(phpcs_bin, "--report=json", 180,
                         VendorLaunch(vendor, exec), proc),
                 LAMBDA code, stdout, stderr :
                     PhpcsParse(standard, code, stdout, stderr))

PhpmdViolationLine(rp, v) ==
    LET pri == Get(v, "priority", 3)
        lvl == IF pri <= 2 THEN "HIGH" ELSE IF pri = 3 THEN "MED" ELSE "LOW"
    IN  "  [" \o lvl \o "] " \o rp \o ":" \o LineStr(v, "beginLine") \o DASH
        \o "[" \o Get(v, "rule", "?") \o "] " \o Strip(Get(v, "description", ""))

PhpmdFileLines(fe) ==
    LET vs == Get(fe, "violations", <<>>)
    IN  [k \in 1..Len(vs) |->
            PhpmdViolationLine(Relpath(Get(fe, "file", "?"), REPO), vs[k])]

\* run_phpmd, from "try:" on
PhpmdParse(code, stdout, stderr) ==
    LET name == ToolName("run_phpmd", NoArg)
        data == IF stdout # "" THEN JsonLoads(stdout)
                ELSE [t |-> "dict", v |-> EmptyDict]
    IN  IF data.t = "error"
        THEN Result(AnalyzerResult(name, TRUE, 0, Or(stdout, stderr),
                 "Parse error", ""))
        ELSE IF data.t # "dict" THEN Raise(NoAttribute(data.t, "get"))
        ELSE LET violations == Get(data.v, "files", <<>>)
                 n == SumSeq([k \in 1..Len(violations) |->
                          Len(Get(violations[k], "violations", <<>>))])
                 lines == Flatten([k \in 1..Len(violations) |->
                              PhpmdFileLines(violations[k])])
             IN  Result(AnalyzerResult(name, TRUE, n,
                     Or(Join(lines, "\n"), "No issues found."), "",
                     IntStr(n) \o " complexity/design/naming issue(s)."))

run_phpmd(on_path, proc) ==
    LET name == ToolName("run_phpmd", NoArg)
    IN  IF ~on_path
        THEN NotRun(AnalyzerResult(name, FALSE, 0, "", "Not installed", ""))
        ELSE Ran(RunCall("phpmd", "json", 180, "ok", proc), PhpmdParse)

\* run_phpcpd, from "output = ..." on
PhpcpdParse(code, stdout, stderr) ==
    LET name   == ToolName("run_phpcpd", NoArg)
        output == Strip(stdout \o "\n" \o stderr)
        found  == SearchCount(output, "Found ", " clones")
        n      == IF found >= 0 THEN found ELSE 0
    IN  Result(AnalyzerResult(name, TRUE, n,
            Or(output, "No duplicated code found."), "",
            IntStr(n) \o " duplicated code block(s)."))

run_phpcpd(on_path, proc) ==
    LET name == ToolName("run_phpcpd", NoArg)
    IN  IF ~on_path
        THEN NotRun(AnalyzerResult(name, FALSE, 0, "", "Not installed", ""))
        ELSE Ran(RunCall("phpcpd", "--min-lines=5", 180, "ok", proc), PhpcpdParse)

\* run_rector_dry, from "output = stdout or stderr" on
RectorParse(code, stdout, stderr) ==
    LET name   == ToolName("run_rector_dry", NoArg)
        output == Or(stdout, stderr)
        found  == SearchCount(output, "", " file")
        n      == IF found >= 0 THEN found ELSE 0
    IN  Result(AnalyzerResult(name, TRUE, n,
            IF output # "" THEN Prefix(output, 8000) ELSE "No deprecated patterns.",
            "", IntStr(n) \o " file(s) with deprecated/improvable patterns."))

run_rector_dry(vendor, on_path, exec, proc) ==
    LET name == ToolName("run_rector_dry", NoArg)
        rector_bin == FindBin("rector", vendor, on_path)
    IN  IF rector_bin = ""
        THEN NotRun(AnalyzerResult(name, FALSE, 0, "", "Not installed", ""))
        ELSE Ran(RunCall(rector_bin, "--dry-run", 300,
                         VendorLaunch(vendor, exec), proc),
                 RectorParse)

ComposerVulnLine(pkg, v) ==
    "  [" \o Upper(Get(v, "severity", "unknown")) \o "] " \o pkg \o ": "
    \o Get(v, "title", "?") \o " (CVE: " \o Get(v, "cve", "N/A") \o ")"

\* run_composer_audit, from "try:" on
ComposerParse(code, stdout, stderr) ==
    LET name == ToolName("run_composer_audit", NoArg)
        data == IF stdout # "" THEN JsonLoads(stdout)
                ELSE [t |-> "dict", v |-> EmptyDict]
    IN  IF data.t = "error"
        THEN Result(AnalyzerResult(name, TRUE, 0, Or(stdout, stderr), "", ""))
        ELSE IF data.t # "dict" THEN Raise(NoAttribute(data.t, "get"))
        ELSE LET advs == Get(data.v, "advisories", EmptyItems)
                 n == SumSeq([k \in 1..Len(advs.items) |-> Len(advs.items[k][2])])
                 lines == Flatten([k \in 1..Len(advs.items) |->
                              [j \in 1..Len(advs.items[k][2]) |->
                                  ComposerVulnLine(advs.items[k][1],
                                                   advs.items[k][2][j])]])
             IN  IF advs.t # "dict" THEN Raise(NoAttribute(advs.t, "values"))
                 ELSE Result(AnalyzerResult(name, TRUE, n,
                          Or(Join(lines, "\n"), "No known vulnerabilities."), "",
                          IntStr(n) \o " known vulnerability/ies."))

run_composer_audit(has_lock, on_path, proc) ==
    LET name == ToolName("run_composer_audit", NoArg)
    IN  IF ~has_lock
        THEN NotRun(AnalyzerResult(name, FALSE, 0, "", "No composer.lock", ""))
        ELSE IF ~on_path
        THEN NotRun(AnalyzerResult(name, FALSE, 0, "", "composer not found", ""))
        ELSE Ran(RunCall("composer", "audit", 60, "ok", proc), ComposerParse)

(***************************************************************************)
(* JavaScript / CSS tools                                                  *)
(***************************************************************************)

EslintMessageLine(rp, m) ==
    LET lvl == IF Get(m, "severity", 0) = 2 THEN "ERROR" ELSE "WARN"
    IN  "  [" \o lvl \o "] " \o rp \o ":" \o LineStr(m, "line") \o DASH
        \o Get(m, "message", "") \o " (" \o Get(m, "ruleId", "") \o ")"

EslintFileLines(fr) ==
    LET ms == Get(fr, "messages", <<>>)
    IN  [k \in 1..Len(ms) |->
            EslintMessageLine(Relpath(Get(fr, "filePath", ""), REPO), ms[k])]

\* run_eslint, from "try:" on.  Iterating None is a TypeError, which the
\* except clause catches together with JSONDecodeError.
EslintParse(code, stdout, stderr) ==
    LET name == ToolName("run_eslint", NoArg)
        data == IF stdout # "" THEN JsonLoads(stdout) ELSE [t |-> "list", v |-> <<>>]
    IN  IF data.t \in {"error", "null"}
        THEN Result(AnalyzerResult(name, TRUE, 0,
                 Or(stderr, Or(stdout, "Parse error")), "", ""))
        ELSE IF data.t = "dict" /\ DOMAIN data.v # {}
        THEN Raise(NoAttribute("str", "get"))
        ELSE LET fs == IF data.t = "list" THEN data.v ELSE <<>>
                 te == SumSeq([k \in 1..Len(fs) |-> Get(fs[k], "errorCount", 0)])
                 tw == SumSeq([k \in 1..Len(fs) |-> Get(fs[k], "warningCount", 0)])
                 n  == te + tw
                 lines == Flatten([k \in 1..Len(fs) |-> EslintFileLines(fs[k])])
             IN  Result(AnalyzerResult(name, TRUE, n,
                     Or(Join(lines, "\n"), "No issues found."), "",
                     IntStr(te) \o " error(s), " \o IntStr(tw) \o " warning(s)."))

run_eslint(on_path, has_cfg, proc) ==
    LET name == ToolName("run_eslint", NoArg)
    IN  IF ~on_path
        THEN NotRun(AnalyzerResult(name, FALSE, 0, "", "npx not found", ""))
        ELSE IF ~has_cfg
        THEN NotRun(AnalyzerResult(name, FALSE, 0, "", "No ESLint config in repo", ""))
        ELSE Ran(RunCall("npx", "eslint", 120, "ok", proc), EslintParse)

StylelintWarningLine(rp, w) ==
    "  [" \o Upper(Get(w, "severity", "warning")) \o "] " \o rp \o ":"
    \o LineStr(w, "line") \o DASH \o Get(w, "text", "")
    \o " (" \o Get(w, "rule", "") \o ")"

StylelintFileLines(fr) ==
    LET ws == Get(fr, "warnings", <<>>)
        rp == IF Get(fr, "source", "") # ""
              THEN Relpath(Get(fr, "source", ""), REPO) ELSE "?"
    IN  [k \in 1..Len(ws) |-> StylelintWarningLine(rp, ws[k])]

\* run_stylelint, from "try:" on
StylelintParse(code, stdout, stderr) ==
    LET name == ToolName("run_stylelint", NoArg)
        data == IF stdout # "" THEN JsonLoads(stdout) ELSE [t |-> "list", v |-> <<>>]
    IN  IF data.t \in {"error", "null"}
        THEN Result(AnalyzerResult(name, TRUE, 0,
                 Or(stderr, Or(stdout, "Parse error")), "", ""))
        ELSE IF data.t = "dict" /\ DOMAIN data.v # {}
        THEN Raise(NoAttribute("str", "get"))
        ELSE LET fs == IF data.t = "list" THEN data.v ELSE <<>>
                 n  == SumSeq([k \in 1..Len(fs) |->
                           Len(Get(fs[k], "warnings", <<>>))])
                 lines == Flatten([k \in 1..Len(fs) |-> StylelintFileLines(fs[k])])
             IN  Result(AnalyzerResult(name, TRUE, n,
                     Or(Join(lines, "\n"), "No issues found."), "",
                     IntStr(n) \o " CSS issue(s)."))

run_stylelint(on_path, has_cfg, proc) ==
    LET name == ToolName("run_stylelint", NoArg)
    IN  IF ~on_path
        THEN NotRun(AnalyzerResult(name, FALSE, 0, "", "npx not found", ""))
        ELSE IF ~has_cfg
        THEN NotRun(AnalyzerResult(name, FALSE, 0, "", "No Stylelint config in repo", ""))
        ELSE Ran(RunCall("npx", "stylelint", 120, "ok", proc), StylelintParse)

\* title = via[0].get("title", "?") if via and isinstance(via[0], dict)
\*         else str(via); the documents here list advisories (objects) in via.
NpmVulnLine(pkg, info) ==
    LET via   == Get(info, "via", <<>>)
        title == IF via # <<>> THEN Get(via[1], "title", "?") ELSE "[]"
    IN  "  [" \o Upper(Get(info, "severity", "unknown")) \o "] " \o pkg
        \o ": " \o title

\* run_npm_audit, from "try:" on
NpmAuditParse(code, stdout, stderr) ==
    LET name == ToolName("run_npm_audit", NoArg)
        data == IF stdout # "" THEN JsonLoads(stdout)
                ELSE [t |-> "dict", v |-> EmptyDict]
    IN  IF data.t = "error"
        THEN Result(AnalyzerResult(name, TRUE, 0, Or(stdout, stderr), "", ""))
        ELSE IF data.t # "dict" THEN Raise(NoAttribute(data.t, "get"))
        ELSE LET vulns == Get(data.v, "vulnerabilities", EmptyItems)
                 n     == Len(vulns.items)
                 lines == [k \in 1..n |->
                              NpmVulnLine(vulns.items[k][1], vulns.items[k][2])]
             IN  IF vulns.t # "dict" THEN Raise(NoAttribute(vulns.t, "items"))
                 ELSE Result(AnalyzerResult(name, TRUE, n,
                          Or(Join(lines, "\n"), "No known vulnerabilities."), "",
                          IntStr(n) \o " vulnerable package(s)."))

\* run_npm_audit does not look for npm before it calls _run: without npm on
\* the PATH subprocess.run raises FileNotFoundError inside _run.
run_npm_audit(has_lock, on_path, proc) ==
    LET name == ToolName("run_npm_audit", NoArg)
    IN  IF ~has_lock
        THEN NotRun(AnalyzerResult(name, FALSE, 0, "", "No package-lock.json", ""))
        ELSE Ran(RunCall("npm", "audit", 60,
                         IF on_path THEN "ok" ELSE "notfound", proc),
                 NpmAuditParse)

(***************************************************************************)
(* One adapter call: the environment and the process behaviour are the     *)
(* inputs, drawn from small pools.                                         *)
(***************************************************************************)

JsonTools ==
    {"run_parallel_lint", "run_phpstan", "run_psalm", "run_phpcs", "run_phpmd",
     "run_composer_audit", "run_eslint", "run_stylelint", "run_npm_audit"}

FindingsDoc(fn) ==
    CASE fn = "run_parallel_lint"  -> PARALLEL_LINT_FINDINGS
      [] fn = "run_phpstan"        -> PHPSTAN_FINDINGS
      [] fn = "run_psalm"          -> PSALM_FINDINGS
      [] fn = "run_phpcs"          -> PHPCS_FINDINGS
      [] fn = "run_phpmd"          -> PHPMD_FINDINGS
      [] fn = "run_composer_audit" -> COMPOSER_FINDINGS
      [] fn = "run_eslint"         -> ESLINT_FINDINGS
      [] fn = "run_stylelint"      -> STYLELINT_FINDINGS
      [] fn = "run_npm_audit"      -> NPM_FINDINGS

CleanDoc(fn) ==
    CASE fn = "run_parallel_lint"  -> PARALLEL_LINT_CLEAN
      [] fn = "run_phpstan"        -> PHPSTAN_CLEAN
      [] fn = "run_psalm"          -> EMPTY_LIST
      [] fn = "run_phpcs"          -> PHPCS_CLEAN
      [] fn = "run_phpmd"          -> PHPMD_CLEAN
      [] fn = "run_composer_audit" -> COMPOSER_CLEAN
      [] fn = "run_eslint"         -> EMPTY_LIST
      [] fn = "run_stylelint"      -> EMPTY_LIST
      [] fn = "run_npm_audit"      -> NPM_CLEAN

\* What the tool may write to stdout.
Stdouts(fn) ==
    CASE fn \in JsonTools ->
            {"", FindingsDoc(fn), CleanDoc(fn), Truncated(FindingsDoc(fn)), JSON_NULL}
      [] fn = "run_phpcpd" ->
            {"", "Found 2 clones with 14 duplicated lines in 3 files",
             "No clones found."}
      [] fn = "run_rector_dry" ->
            {"", "3 files would have been changed (dry-run) by Rector",
             "[OK] Rector is done!"}

\* What the tool may write to stderr.
Stderrs(fn) ==
    CASE fn = "run_parallel_lint" ->
            {"", "PHP Parse error: syntax error, unexpected token"}
      [] fn = "run_psalm" ->
            {"", "Taint analysis is not available"}
      [] OTHER ->
            {"", "PHP Fatal error: Allowed memory size exhausted"}

ExitCodes == {0, 1}

\* What the process of one _run call does: it exits, or it is still
\* running when the timeout expires.
Procs(fn) ==
    {[kind |-> "exit", code |-> c, stdout |-> o, stderr |-> e] :
        c \in ExitCodes, o \in Stdouts(fn), e \in Stderrs(fn)}
    \cup {[kind |-> "timeout"]}

\* Where the tool is installed: in the repository's vendor/bin (executable
\* or not) and on the PATH.
VendorEnvs ==
    {e \in [vendor : BOOLEAN, on_path : BOOLEAN, exec : BOOLEAN] :
        ~e.vendor => e.exec}

PhpcsStandards == {"WordPress", "WordPress-Security", "PSR12"}

InitAdapter ==
    /\ acall = [fn |-> "none"]
    /\ aruns = <<>>
    /\ aresult = [kind |-> "none"]
    /\ awritten = {}
    /\ OthersIdle("adapter")

\* No adapter ran yet in this call of the suite.
NotCalled == acall.fn = "none"

\* The files of the repository (the working directory of every process)
\* that the processes of the _run calls wrote: "psalm --init" writes
\* psalm.xml when it exits with 0.
WrittenBy(runs) ==
    {"psalm.xml" : k \in {j \in 1..Len(runs) :
                             /\ runs[j].args = "--init"
                             /\ runs[j].launch = "ok"
                             /\ runs[j].proc.kind = "exit"
                             /\ runs[j].proc.code = 0}}

\* The adapter fn(*args) runs in its worker: x is what it does.  cfg is
\* the presence of the file the adapter asks for (psalm.xml, an ESLint or
\* Stylelint config, composer.lock, package-lock.json); cfg = TRUE for an
\* adapter that asks for none, vendor = FALSE and exec = TRUE for the tools
\* Composer does not install (composer, npx, npm).
Returns(fn, arg, vendor, on_path, exec, cfg, x) ==
    /\ acall' = [fn |-> fn, arg |-> arg, vendor |-> vendor, on_path |-> on_path,
                 exec |-> exec, cfg |-> cfg]
    /\ aruns' = x.runs
    /\ aresult' = x.out
    /\ awritten' = WrittenBy(x.runs)
    /\ UNCHANGED notAdapterVars

CallParallelLint ==
    \E e \in VendorEnvs, proc \in Procs("run_parallel_lint") :
        /\ NotCalled
        /\ Returns("run_parallel_lint", NoArg, e.vendor, e.on_path, e.exec, TRUE,
                run_parallel_lint(e.on_path, proc))

CallPhpstan ==
    \E level \in PhpstanLevels, e \in VendorEnvs, proc \in Procs("run_phpstan") :
        /\ NotCalled
        /\ Returns("run_phpstan", level, e.vendor, e.on_path, e.exec, TRUE,
                run_phpstan(level, e.vendor, e.on_path, e.exec, proc))

CallPsalm ==
    \E e \in VendorEnvs, has_cfg \in BOOLEAN, init_proc \in PsalmInitProcs,
       proc1 \in Procs("run_psalm"), proc2 \in Procs("run_psalm") :
        /\ NotCalled
        /\ Returns("run_psalm", NoArg, e.vendor, e.on_path, e.exec, has_cfg,
                run_psalm(e.vendor, e.on_path, e.exec, has_cfg, init_proc,
                          proc1, proc2))

CallPhpcs ==
    \E standard \in PhpcsStandards, e \in VendorEnvs, proc \in Procs("run_phpcs") :
        /\ NotCalled
        /\ Returns("run_phpcs", standard, e.vendor, e.on_path, e.exec, TRUE,
                run_phpcs(standard, e.vendor, e.on_path, e.exec, proc))

CallPhpmd ==
    \E e \in VendorEnvs, proc \in Procs("run_phpmd") :
        /\ NotCalled
        /\ Returns("run_phpmd", NoArg, e.vendor, e.on_path, e.exec, TRUE,
                run_phpmd(e.on_path, proc))

CallPhpcpd ==
    \E e \in VendorEnvs, proc \in Procs("run_phpcpd") :
        /\ NotCalled
        /\ Returns("run_phpcpd", NoArg, e.vendor, e.on_path, e.exec, TRUE,
                run_phpcpd(e.on_path, proc))

CallRectorDry ==
    \E e \in VendorEnvs, proc \in Procs("run_rector_dry") :
        /\ NotCalled
        /\ Returns("run_rector_dry", NoArg, e.vendor, e.on_path, e.exec, TRUE,
                run_rector_dry(e.vendor, e.on_path, e.exec, proc))

CallComposerAudit ==
    \E has_lock \in BOOLEAN, on_path \in BOOLEAN,
       proc \in Procs("run_composer_audit") :
        /\ NotCalled
        /\ Returns("run_composer_audit", NoArg, FALSE, on_path, TRUE, has_lock,
                run_composer_audit(has_lock, on_path, proc))

CallEslint ==
    \E on_path \in BOOLEAN, has_cfg \in BOOLEAN, proc \in Procs("run_eslint") :
        /\ NotCalled
        /\ Returns("run_eslint", NoArg, FALSE, on_path, TRUE, has_cfg,
                run_eslint(on_path, has_cfg, proc))

CallStylelint ==
    \E on_path \in BOOLEAN, has_cfg \in BOOLEAN, proc \in Procs("run_stylelint") :
        /\ NotCalled
        /\ Returns("run_stylelint", NoArg, FALSE, on_path, TRUE, has_cfg,
                run_stylelint(on_path, has_cfg, proc))

CallNpmAudit ==
    \E has_lock \in BOOLEAN, on_path \in BOOLEAN, proc \in Procs("run_npm_audit") :
        /\ NotCalled
        /\ Returns("run_npm_audit", NoArg, FALSE, on_path, TRUE, has_lock,
                run_npm_audit(has_lock, on_path, proc))

NextAdapter ==
    \/ CallParallelLint
    \/ CallPhpstan
    \/ CallPsalm
    \/ CallPhpcs
    \/ CallPhpmd
    \/ CallPhpcpd
    \/ CallRectorDry
    \/ CallComposerAudit
    \/ CallEslint
    \/ CallStylelint
    \/ CallNpmAudit

SpecAdapter == InitAdapter /\ [][NextAdapter]_vars

(***************************************************************************)
(* Claims about the adapters                                               *)
(***************************************************************************)

\* The label under which the suites submit the adapter.
LabelOf(fn) ==
    CASE fn = "run_parallel_lint"  -> "Parallel Lint"
      [] fn = "run_phpstan"        -> "PHPStan"
      [] fn = "run_psalm"          -> "Psalm"
      [] fn = "run_phpcs"          -> "PHPCS"
      [] fn = "run_phpmd"          -> "PHPMD"
      [] fn = "run_phpcpd"         -> "PHPCPD"
      [] fn = "run_rector_dry"     -> "Rector"
      [] fn = "run_composer_audit" -> "Composer Audit"
      [] fn = "run_eslint"         -> "ESLint"
      [] fn = "run_stylelint"      -> "Stylelint"
      [] fn = "run_npm_audit"      -> "npm Audit"

\* The AnalyzerResult the suite holds for the adapter that was called: the
\* one it returned, or the one _run_parallel makes of its exception.
ToolResult ==
    CollectedResults(<<>>, Task(LabelOf(acall.fn), acall.fn, acall.arg), aresult)[1]

Called == acall.fn # "none"

\* The last _run call of the adapter, whose tuple it parsed.
LastRun == aruns[Len(aruns)]

\* The tool is neither in the repository's vendor/bin nor on the PATH.
BinaryAbsent == Called /\ ~acall.vendor /\ ~acall.on_path

\* C6: for every adapter, when the binary of its tool is absent, the
\* AnalyzerResult has success = False, findings_count = 0 and an error
\* that is not empty.
C6_AbsentBinaryIsFailure ==
    BinaryAbsent =>
        /\ ToolResult.success = FALSE
        /\ ToolResult.findings_count = 0
        /\ ToolResult.error # ""

\* The process of the last _run call ran into its timeout, or could not be
\* started.
ProcessFailed ==
    /\ Called
    /\ aruns # <<>>
    /\ \/ LastRun.launch # "ok"
       \/ LastRun.proc.kind = "timeout"

\* C7: for every adapter, when its process exceeds the timeout or fails to
\* run, the AnalyzerResult has success = False and carries a diagnostic
\* text.
C7_ProcessFailureIsFailure ==
    ProcessFailed =>
        /\ ToolResult.success = FALSE
        /\ ToolResult.error # ""

\* The process ran to its end, and what it printed is not the JSON document
\* the adapter expects: nothing at all, or text json.loads rejects.
OutputUnparseable ==
    /\ Called
    /\ acall.fn \in JsonTools
    /\ aruns # <<>>
    /\ LastRun.launch = "ok"
    /\ LastRun.proc.kind = "exit"
    /\ \/ LastRun.proc.stdout = ""
       \/ JsonLoads(LastRun.proc.stdout).t = "error"

\* The texts the process printed, as they are and stripped.
RawTexts ==
    {LastRun.proc.stdout, LastRun.proc.stderr,
     Strip(LastRun.proc.stdout), Strip(LastRun.proc.stderr)} \ {""}

\* C8: for every adapter that expects JSON, when the process ran and its
\* JSON output is missing or malformed, the AnalyzerResult has
\* success = False and its output is the raw output of the process.
C8_UnparseableIsFailure ==
    OutputUnparseable =>
        /\ ToolResult.success = FALSE
        /\ RawTexts # {} => ToolResult.output \in RawTexts

\* C23: no step of the pipeline creates, changes or deletes a file of the
\* reviewed repository; of the adapters: the processes an adapter starts in
\* the repository leave its files as they were.
C23_RepositoryUntouched ==
    awritten = {}

\* The adapters of the tools Composer installs, into vendor/bin of a project
\* or globally, and the name of each tool's binary
ComposerTools ==
    {"run_parallel_lint", "run_phpstan", "run_psalm", "run_phpcs", "run_phpmd",
     "run_phpcpd", "run_rector_dry"}

BinaryOf(fn) ==
    CASE fn = "run_parallel_lint" -> "parallel-lint"
      [] fn = "run_phpstan"       -> "phpstan"
      [] fn = "run_psalm"         -> "psalm"
      [] fn = "run_phpcs"         -> "phpcs"
      [] fn = "run_phpmd"         -> "phpmd"
      [] fn = "run_phpcpd"        -> "phpcpd"
      [] fn = "run_rector_dry"    -> "rector"

\* C25: every adapter prefers the project's own install of its tool: when
\* the tool is in the repository's vendor/bin, the adapter treats it as
\* available and every process it starts runs that binary, whether or not
\* the tool is installed globally as well.
C25_ProjectLocalPreferred ==
    (Called /\ acall.fn \in ComposerTools /\ acall.vendor) =>
        /\ aruns # <<>>
        /\ \A k \in 1..Len(aruns) :
              aruns[k].cmd0 = REPO \o "/vendor/bin/" \o BinaryOf(acall.fn)

(***************************************************************************)
(* FOLLOW-UP CONTEXT (review.py load_prior_report and its call in main)    *)
(***************************************************************************)

\* load_prior_report(path, max_chars=15000): main passes no max_chars
PRIOR_MAX_CHARS == 15000

\* The elision marker; its em dash is written DASH here.
PRIOR_MARKER ==
    "\n\n... [PRIOR REPORT TRUNCATED" \o DASH \o "middle batches omitted] ...\n\n"

\* content[:half]
PriorHead(content, half) == Prefix(content, half)

\* content[-half:] where the tail is one character short
PriorTailShort(content, half) ==
    IF half <= 1 \/ Len(content) <= half - 1 THEN content
    ELSE SubSeq(content, Len(content) - half + 2, Len(content))

\* content[-half:]; -0 is 0, so half = 0 selects the whole string
PriorTail(content, half) ==
    IF half = 0 \/ Len(content) <= half THEN content
    ELSE SubSeq(content, Len(content) - half + 1, Len(content))

\* load_prior_report once f.read() returned content
TruncatePrior(content, max_chars) ==
    IF Len(content) <= max_chars THEN content
    ELSE LET half == max_chars \div 2
         IN  PriorHead(content, half) \o PRIOR_MARKER \o PriorTail(content, half)

\* load_prior_report: file is what reading the path does
load_prior_report(file, max_chars) ==
    IF ~file.readable
    THEN "(Could not load prior report: " \o file.text \o ")"
    ELSE TruncatePrior(file.text, max_chars)

\* Report texts: runs of five-digit numbers, so that every window of a text
\* is told from every other window by what it holds.
RECURSIVE NumberRun(_, _)
NumberRun(lo, hi) ==
    IF lo = hi THEN IntStr(lo)
    ELSE LET mid == (lo + hi) \div 2
         IN  NumberRun(lo, mid) \o NumberRun(mid + 1, hi)

ScenarioLen == 40000
BigReport == Prefix(NumberRun(10000, 10000 + ScenarioLen \div 5), ScenarioLen)

MaxShort == 12
MaxNear == 6
ReportLens ==
    (0..MaxShort)
    \cup ((PRIOR_MAX_CHARS - MaxNear)..(PRIOR_MAX_CHARS + MaxNear))
    \cup {2 * PRIOR_MAX_CHARS, ScenarioLen}

ReportTexts ==
    {PriorHead(BigReport, n) : n \in ReportLens}
    \cup {PriorTail(BigReport, n) : n \in ReportLens \ {0}}

ReadErrors ==
    {"[Errno 13] Permission denied: 'prior.md'",
     "'utf-8' codec can't decode byte 0xff in position 0: invalid start byte"}

PriorFiles ==
    [is_file : {TRUE}, readable : {TRUE}, text : ReportTexts]
    \cup [is_file : {TRUE}, readable : {FALSE}, text : ReadErrors]
    \cup [is_file : {FALSE}, readable : {FALSE}, text : {""}]

\* main, "if prior_report_path:"
InitPrior ==
    /\ prior_file \in PriorFiles
    /\ prior_report_ctx = ""
    /\ rphase = "path"
    /\ OthersIdle("prior")

\* main: os.path.isfile(prior_report_path) holds
LoadPriorReport ==
    /\ rphase = "path"
    /\ prior_file.is_file
    /\ prior_report_ctx' = load_prior_report(prior_file, PRIOR_MAX_CHARS)
    /\ rphase' = "loaded"
    /\ UNCHANGED <<prior_file, notPriorVars>>

\* main: the else branch, "Prior report not found"
WarnPriorMissing ==
    /\ rphase = "path"
    /\ ~prior_file.is_file
    /\ rphase' = "missing"
    /\ UNCHANGED <<prior_file, prior_report_ctx, notPriorVars>>

NextPrior == LoadPriorReport \/ WarnPriorMissing

SpecPrior == InitPrior /\ [][NextPrior]_vars

\* The prior report was read and load_prior_report returned.
PriorLoaded == rphase = "loaded" /\ prior_file.readable

\* C11: a report no longer than the budget is returned unchanged; a longer
\* one comes back as its first budget/2 characters, the elision marker and
\* its last budget/2 characters, and nothing else, the two kept parts adding
\* up to the budget or one less; a report of 40,000 characters comes back
\* 15,000 + len(marker) long, starting with its first 7,500 characters and
\* ending with its last 7,500.
C11_TruncationRoundTrip ==
    PriorLoaded =>
        LET content == prior_file.text
            out     == prior_report_ctx
            half    == PRIOR_MAX_CHARS \div 2
            head    == SubSeq(content, 1, half)
            tail    == SubSeq(content, Len(content) - half + 1, Len(content))
        IN  /\ Len(content) <= PRIOR_MAX_CHARS => out = content
            /\ Len(content) > PRIOR_MAX_CHARS =>
                  /\ out = head \o PRIOR_MARKER \o tail
                  /\ Len(head) = half /\ Len(tail) = half
                  /\ PRIOR_MAX_CHARS - (Len(head) + Len(tail)) \in {0, 1}
            /\ Len(content) = ScenarioLen =>
                  /\ Len(out) = 15000 + Len(PRIOR_MARKER)
                  /\ SubSeq(out, 1, 7500) = SubSeq(content, 1, 7500)
                  /\ SubSeq(out, Len(out) - 7499, Len(out))
                       = SubSeq(content, ScenarioLen - 7499, ScenarioLen)

\* A report of 40,000 characters was loaded and cut.
C11_Witness ==
    /\ PriorLoaded
    /\ Len(prior_file.text) = ScenarioLen
    /\ Len(prior_report_ctx) < ScenarioLen
    /\ Contains(prior_report_ctx, PRIOR_MARKER)

(***************************************************************************)
(* FILE DISCOVERY (review.py discover_files)                               *)
(***************************************************************************)

MAX_FILE_SIZE == 50000
MAX_TOTAL_FILES == 300

\* prompts.py PROFILES: the fields discover_files and main read
Profile(name) ==
    CASE name = "wp-theme" ->
           [file_extensions |-> {".php", ".js", ".css", ".html", ".htm", ".twig"},
            skip_dirs |-> {"node_modules", "vendor", ".git", "wp-admin",
                           "wp-includes", "uploads", "cache", ".svn", "backups"},
            skip_files |-> {"package-lock.json", "composer.lock", "yarn.lock"},
            group_strategy |-> "wp-theme"]
      [] name = "general" ->
           [file_extensions |-> {".php", ".js", ".jsx", ".ts", ".tsx", ".py",
                                 ".css", ".scss", ".html", ".htm", ".sql",
                                 ".blade.php", ".twig", ".vue"},
            skip_dirs |-> {"node_modules", "vendor", ".git", "build", "dist",
                           "cache", "storage", "uploads"},
            skip_files |-> {"package-lock.json", "composer.lock", "yarn.lock"},
            group_strategy |-> "flat"]

\* rel_path.split(os.sep)[:-1]: the directory components of a path
RECURSIVE DirParts(_)
DirParts(rel_path) ==
    LET i == FirstIndex(rel_path, "/")
    IN  IF i = 0 THEN <<>>
        ELSE <<SubSeq(rel_path, 1, i - 1)>>
             \o DirParts(SubSeq(rel_path, i + 1, Len(rel_path)))

\* "d in skip_dirs or d.startswith('.')"
SkippedDir(d, skip_dirs) == d \in skip_dirs \/ StartsWith(d, ".")

\* should_skip_path
should_skip_path(rel_path, skip_dirs, excludes) ==
    \/ \E k \in 1..Len(DirParts(rel_path)) :
          SkippedDir(DirParts(rel_path)[k], skip_dirs)
    \/ \E k \in 1..Len(excludes) :
          \/ StartsWith(rel_path, excludes[k])
          \/ Contains(rel_path, "/" \o excludes[k])

\* "if sz > MAX_FILE_SIZE: continue", the empty file let through
SizeRejectedAboveCapOnly(sz) == sz > MAX_FILE_SIZE

\* "if sz > MAX_FILE_SIZE or sz == 0: continue"
SizeRejected(sz) == sz > MAX_FILE_SIZE \/ sz = 0

\* The body of either loop for one path rp: TRUE when the file is appended.
\* e is what the file system holds at rp.
Reviewable(e, fs) ==
    LET profile == Profile(fs.profile)
        fn == Basename(e.path)
    IN  /\ fn \notin profile.skip_files
        /\ EndsWithAny(fn, profile.file_extensions)
        /\ ~should_skip_path(e.path, profile.skip_dirs, fs.excludes)
        /\ fs.file_filter.given => e.path \in fs.file_filter.paths
        /\ e.stat_ok
        /\ ~SizeRejected(e.size)
        /\ e.read_ok

\* {"path": rp, "content": content, "size": sz}; content is kept by its length
FileRecord(e) == [path |-> e.path, content_len |-> e.size, size |-> e.size]

\* The files list after a loop over the entries es, taken in their order
Collected(es, fs) ==
    LET kept == SelectSeq(es, LAMBDA e : Reviewable(e, fs))
    IN  [k \in 1..Len(kept) |-> FileRecord(kept[k])]

\* files[-MAX_TOTAL_FILES:], the cut taken at the wrong end
CappedAtEnd(fl) ==
    IF Len(fl) <= MAX_TOTAL_FILES THEN fl
    ELSE SubSeq(fl, Len(fl) - MAX_TOTAL_FILES + 1, Len(fl))

\* files[:MAX_TOTAL_FILES]
Capped(fl) ==
    IF Len(fl) <= MAX_TOTAL_FILES THEN fl ELSE SubSeq(fl, 1, MAX_TOTAL_FILES)

\* sorted(tracked_files) over entries with distinct paths: the entry that
\* has k - 1 entries before it in string order stands at k
SortedByPath(es) ==
    LET n      == Len(es)
        ranked == {<<Cardinality({j \in 1..n : StrLess(es[j].path, es[i].path)}), i>> :
                      i \in 1..n}
    IN  [k \in 1..n |-> es[CHOOSE i \in 1..n : <<k - 1, i>> \in ranked]]

\* The git branch: "for rp in sorted(tracked_files)"
DiscoverGit(fs) == Capped(Collected(SortedByPath(fs.entries), fs))

\* What os.scandir yields for a directory: its entries in an order of the
\* file system's choosing, here the stored order or its reverse.
ScanOrders == {"stored", "reversed"}

Reversed(s) == [k \in 1..Len(s) |-> s[Len(s) - k + 1]]

Scanned(es, order) == IF order = "reversed" THEN Reversed(es) ELSE es

\* The part of a path below the directory prefix root ("" or "dir/")
Below(path, root) == SubSeq(path, Len(root) + 1, Len(path))

\* os.walk below root over the entries es of that directory tree: the files
\* of the directory itself, then each subdirectory that is not pruned, in
\* the order the subdirectories first show up in es.
RECURSIVE Walk(_, _, _)
Walk(root, es, skip_dirs) ==
    LET InHere(e) == FirstIndex(Below(e.path, root), "/") = 0
        SubDir(e) == LET r == Below(e.path, root)
                     IN  SubSeq(r, 1, FirstIndex(r, "/") - 1)
        fnames == SelectSeq(es, InHere)
        deeper == SelectSeq(es, LAMBDA e : ~InHere(e))
        subs   == <<>> \o [k \in 1..Len(deeper) |-> SubDir(deeper[k])]
        firsts == SelectSeq([k \in 1..Len(subs) |-> k],
                      LAMBDA k : \A j \in 1..(k - 1) : subs[j] # subs[k])
        dirs   == SelectSeq([k \in 1..Len(firsts) |-> subs[firsts[k]]],
                      LAMBDA d : ~SkippedDir(d, skip_dirs))
    IN  fnames
        \o Flatten([k \in 1..Len(dirs) |->
               Walk(root \o dirs[k] \o "/",
                    SelectSeq(deeper, LAMBDA e : SubDir(e) = dirs[k]),
                    skip_dirs)])

\* The fallback branch: "for root, dirs, fnames in os.walk(repo)"
DiscoverWalk(fs, order) ==
    Capped(Collected(
        Walk("", Scanned(fs.entries, order), Profile(fs.profile).skip_dirs), fs))

\* discover_files: git lists the files, or the walk finds them
discover_files(fs, order) ==
    IF fs.git THEN DiscoverGit(fs) ELSE DiscoverWalk(fs, order)

\* grouper(files), for file lists whose paths are outside PathPool
GroupDiscovered(strat, fl) ==
    BatchGroups([i \in 1..Len(Categories(strat)) |->
        SelectSeq(fl, LAMBDA f : Classify(strat, f.path) = Categories(strat)[i])])

(***************************************************************************)
(* File discovery: inputs and actions                                      *)
(***************************************************************************)

MaxRepoFiles == 2
Surplus == 5

\* Repo-relative paths of the small repositories, in stored order
RepoPaths ==
    <<"functions.php", "assets/js/app.js", "inc/template-tags.php",
      "vendor/autoload.php", ".github/deploy.js">>

\* What os.path.getsize and open().read() do for a file
FileStates ==
    [size : {0, 3000, MAX_FILE_SIZE, MAX_FILE_SIZE + 1},
     stat_ok : {TRUE}, read_ok : {TRUE}]
    \cup {[size |-> 3000, stat_ok |-> FALSE, read_ok |-> TRUE],
          [size |-> 3000, stat_ok |-> TRUE, read_ok |-> FALSE]}

Entry(path, st) ==
    [path |-> path, size |-> st.size, stat_ok |-> st.stat_ok, read_ok |-> st.read_ok]

\* The entries of a small repository: the paths sel, with the states sts
SmallEntries(sel, sts) ==
    LET idx == SelectSeq([i \in 1..Len(RepoPaths) |-> i], LAMBDA i : i \in sel)
    IN  [k \in 1..Len(idx) |-> Entry(RepoPaths[idx[k]], sts[idx[k]])]

\* A repository of n PHP files in src/, stored in no particular order; the
\* files numbered with a multiple of 100 are empty.
BigEntries(n) ==
    [k \in 1..n |->
        LET i == (k * 37) % n
        IN  [path |-> "src/m" \o IntStr(1000 + i) \o ".php",
             size |-> IF i % 100 = 0 THEN 0 ELSE 3000,
             stat_ok |-> TRUE, read_ok |-> TRUE]]

NoFilter == [given |-> FALSE, paths |-> {}]

\* file_filter (the changed files of a PR) and extra_excludes (the "exclude"
\* list of WalterChecks.json) of a run
ScanOptions ==
    {[file_filter |-> NoFilter, excludes |-> <<>>],
     [file_filter |-> [given |-> TRUE,
                       paths |-> {"functions.php", "vendor/autoload.php"}],
      excludes |-> <<>>],
     [file_filter |-> NoFilter, excludes |-> <<StripSlashes("/inc/")>>],
     [file_filter |-> NoFilter, excludes |-> <<StripSlashes("js/")>>]}

Repo(git, entries, profile, opts, runs) ==
    [git |-> git, entries |-> entries, profile |-> profile,
     file_filter |-> opts.file_filter, excludes |-> opts.excludes, runs |-> runs]

\* repo_fs is a small repository: at most MaxRepoFiles of the paths
IsSmallRepo(runs) ==
    \E sel \in {x \in SUBSET (1..Len(RepoPaths)) : Cardinality(x) <= MaxRepoFiles} :
    \E sts \in [sel -> FileStates] :
    \E git \in BOOLEAN, profile \in {"wp-theme", "general"}, opts \in ScanOptions :
        repo_fs = Repo(git, SmallEntries(sel, sts), profile, opts, runs)

\* repo_fs is a repository of about MAX_TOTAL_FILES files
IsBigRepo ==
    \E git \in BOOLEAN, n \in MAX_TOTAL_FILES..(MAX_TOTAL_FILES + Surplus) :
        repo_fs = Repo(git, BigEntries(n), "general",
                       [file_filter |-> NoFilter, excludes |-> <<>>], 1)

\* One run of discover_files over a repository
InitDiscover ==
    /\ IsSmallRepo(1) \/ IsBigRepo
    /\ dfiles = <<>>
    /\ dbatches = <<>>
    /\ OthersIdle("discover")

\* Two runs of main's scan and batch steps over one unchanged repository
InitRerun ==
    /\ IsSmallRepo(2)
    /\ dfiles = <<>>
    /\ dbatches = <<>>
    /\ OthersIdle("discover")

\* The next run may scan once the run before it is through its grouper.
MayScan ==
    /\ Len(dfiles) < repo_fs.runs
    /\ Len(dfiles) > 0 /\ dfiles[Len(dfiles)] # <<>> => Len(dbatches) = Len(dfiles)

\* main once discover_files returned fl: no files, no batches (sys.exit(0))
Scan(fl) ==
    /\ dfiles' = Append(dfiles, fl)
    /\ dbatches' = IF fl = <<>> THEN Append(dbatches, <<>>) ELSE dbatches
    /\ UNCHANGED <<repo_fs, notDiscVars>>

\* files = discover_files(...), git rev-parse and git ls-files succeeding
ScanGit ==
    /\ MayScan
    /\ repo_fs.git
    /\ Scan(discover_files(repo_fs, "stored"))

\* files = discover_files(...), outside a git work tree
ScanWalk ==
    /\ MayScan
    /\ ~repo_fs.git
    /\ \E order \in ScanOrders : Scan(discover_files(repo_fs, order))

\* batches = grouper(files); main exits before it when no file was found
PlanBatches ==
    /\ Len(dbatches) < Len(dfiles)
    /\ dbatches' = Append(dbatches,
           GroupDiscovered(Profile(repo_fs.profile).group_strategy,
                           dfiles[Len(dfiles)]))
    /\ UNCHANGED <<repo_fs, dfiles, notDiscVars>>

NextDiscover == ScanGit \/ ScanWalk

SpecDiscover == InitDiscover /\ [][NextDiscover]_vars

NextRerun == ScanGit \/ ScanWalk \/ PlanBatches

SpecRerun == InitRerun /\ [][NextRerun]_vars

\* The paths discover_files would take from the repository: those whose
\* file passes every test of the loop body
AcceptedPaths == {repo_fs.entries[k].path :
                     k \in {j \in 1..Len(repo_fs.entries) :
                               Reviewable(repo_fs.entries[j], repo_fs)}}

ReturnedPaths(fl) == {fl[k].path : k \in 1..Len(fl)}

\* The repository holds a file with the extension, place and readability
\* of a reviewable file and this size.
HoldsFileOfSize(sz) ==
    \E k \in 1..Len(repo_fs.entries) :
        /\ repo_fs.entries[k].size = sz
        /\ Reviewable([repo_fs.entries[k] EXCEPT !.size = 3000], repo_fs)

\* C12: every file discover_files returns, from git's listing or from the
\* directory walk, has a size above 0 and of at most MAX_FILE_SIZE.
C12_SizeWithinCap ==
    \A r \in 1..Len(dfiles) : \A k \in 1..Len(dfiles[r]) :
        dfiles[r][k].size > 0 /\ dfiles[r][k].size <= MAX_FILE_SIZE

\* A walk returned files from a repository that also holds an empty file
\* or one above the cap.
C12_Witness ==
    /\ Len(dfiles) = 1 /\ dfiles[1] # <<>>
    /\ ~repo_fs.git
    /\ HoldsFileOfSize(0) \/ HoldsFileOfSize(MAX_FILE_SIZE + 1)

\* C13: discover_files returns at most MAX_TOTAL_FILES files; when git lists
\* the files, the returned list is in ascending path order and holds the
\* accepted paths that come first in that order: every accepted path left
\* out is greater than every path returned.
C13_CapTakesFirstSorted ==
    \A r \in 1..Len(dfiles) :
        LET fl  == dfiles[r]
            got == ReturnedPaths(fl)
            acc == AcceptedPaths
        IN  /\ Len(fl) <= MAX_TOTAL_FILES
            /\ repo_fs.git =>
                  /\ \A k \in 1..(Len(fl) - 1) : StrLess(fl[k].path, fl[k + 1].path)
                  /\ got \subseteq acc
                  /\ Len(fl) = MAX_TOTAL_FILES \/ got = acc
                  /\ \A p \in acc \ got : StrLess(fl[Len(fl)].path, p)

\* Git listed more accepted files than the cap and the cap cut the list.
C13_Witness ==
    /\ Len(dfiles) = 1
    /\ repo_fs.git
    /\ Cardinality(AcceptedPaths) > MAX_TOTAL_FILES
    /\ Len(dfiles[1]) = MAX_TOTAL_FILES

\* Both runs over the repository are through discovery and batching.
BothRunsDone == Len(dfiles) = 2 /\ Len(dbatches) = 2

\* C14: two runs over the same unchanged repository and profile get the
\* same ordered file list from discover_files and the same ordered list of
\* batches from the grouper, whether git lists the files or the directory
\* walk finds them.
C14_Deterministic ==
    BothRunsDone => dfiles[1] = dfiles[2] /\ dbatches[1] = dbatches[2]

\* The path begins with one of the extra excludes.
ExcludedByPrefix(path) ==
    \E k \in 1..Len(repo_fs.excludes) : StartsWith(path, repo_fs.excludes[k])

\* C24: the extra excludes are path prefixes: a file that every other test
\* of discovery lets through is left out exactly when its path begins with
\* one of the entries (the cap on the number of files not being reached).
C24_ExcludesArePrefixes ==
    Len(repo_fs.entries) < MAX_TOTAL_FILES =>
        \A r \in 1..Len(dfiles) : \A k \in 1..Len(repo_fs.entries) :
            Reviewable(repo_fs.entries[k], [repo_fs EXCEPT !.excludes = <<>>]) =>
                (repo_fs.entries[k].path \notin ReturnedPaths(dfiles[r])
                    <=> ExcludedByPrefix(repo_fs.entries[k].path))

(***************************************************************************)
(* REVIEW DRIVER (review.py review_batch, detect_model, main)              *)
(***************************************************************************)

DIFF_MAX_CHARS == 6000

PRIOR_HEADER == "PRIOR QA REPORT (your previous findings for this codebase):\n\n"
ANALYSIS_HEADER == "STATIC ANALYSIS RESULTS:\n\n"
\* The code fence, three backquotes in the source, is written FENCE here.
FENCE == "'''"

DIFF_HEADER == "GIT DIFF (the changes under review):\n\n" \o FENCE \o "diff\n"

\* review_batch: the follow-up part
PriorPart(ctx) ==
    PRIOR_HEADER
    \o "The code changes you are reviewing were made IN RESPONSE to this report.\n"
    \o "For each of your prior findings, determine whether the changes address it.\n"
    \o "Flag any prior findings that were NOT addressed.\n"
    \o "Also flag any NEW issues introduced by the changes.\n\n"
    \o ctx \o "\n\n---\n"

\* review_batch: the static analysis part
AnalysisPart(ctx) == ANALYSIS_HEADER \o ctx \o "\n\n---\n"

\* review_batch: the diff part, diff_ctx[:6000]
DiffPart(ctx) == DIFF_HEADER \o Prefix(ctx, DIFF_MAX_CHARS) \o "\n" \o FENCE \o "\n\n---\n"

FOLLOWUP_INSTRUCTION ==
    "Review the code below. This is a FOLLOW-UP review. The developer was given "
    \o "your prior report and filed a PR to address your findings. Your job:\n"
    \o "1. For each prior CRITICAL/WARNING finding: was it fixed? Partially fixed? Ignored?\n"
    \o "2. Are there any NEW issues introduced by these changes?\n"
    \o "3. Is the fix correct, or did it introduce a different problem?\n"
    \o "4. Any prior findings that are no longer relevant (code was removed, etc.)?\n\n"

REVIEW_INSTRUCTION ==
    "Review the code below. Reference tool findings where relevant. "
    \o "Confirm real issues, dismiss false positives, find issues tools missed.\n\n"

\* "--- FILE: {path} ---"
FileMarker(path) == "--- FILE: " \o path \o " ---"

\* review_batch: the three parts appended for each file of the batch
FileParts(batch) ==
    Flatten([k \in 1..Len(batch) |->
        <<FileMarker(batch[k].path), batch[k].content, "">>])

\* review_batch: "\n".join(parts), the content of the user message
UserContent(batch, analysis_ctx, diff_ctx, prior_ctx) ==
    Join((IF prior_ctx # "" THEN <<PriorPart(prior_ctx)>> ELSE <<>>)
         \o (IF analysis_ctx # "" THEN <<AnalysisPart(analysis_ctx)>> ELSE <<>>)
         \o (IF diff_ctx # "" THEN <<DiffPart(diff_ctx)>> ELSE <<>>)
         \o <<IF prior_ctx # "" THEN FOLLOWUP_INSTRUCTION ELSE REVIEW_INSTRUCTION>>
         \o FileParts(batch),
         "\n")

\* What client.chat.completions.create does: it returns a reply, or raises
\* review_batch: the reply's text, or the except branch's string
ReviewText(outcome) ==
    IF outcome.ok THEN outcome.text
    ELSE "**Error reviewing batch:** " \o outcome.text

\* main, review loop: "ctx if i == 0 else ''", passed for every batch
CtxForEveryBatch(i, ctx) == ctx

\* main, review loop: "ctx if i == 0 else ''" (i counts from 0)
CtxFor(i, ctx) == IF i = 0 THEN ctx ELSE ""

\* results.append(...) dropped when the request failed
AppendedUnlessFailed(rs, batch, outcome) ==
    IF outcome.ok
    THEN Append(rs, [files |-> [k \in 1..Len(batch) |-> batch[k].path],
                     file_count |-> Len(batch), review |-> ReviewText(outcome)])
    ELSE rs

\* results.insert(0, ...) in place of results.append(...)
Prepended(rs, batch, outcome) ==
    <<[files |-> [k \in 1..Len(batch) |-> batch[k].path],
       file_count |-> Len(batch), review |-> ReviewText(outcome)]>> \o rs

\* results.append({"files": fnames, "file_count": len(batch), "review": review})
Appended(rs, batch, outcome) ==
    Append(rs, [files |-> [k \in 1..Len(batch) |-> batch[k].path],
                file_count |-> Len(batch), review |-> ReviewText(outcome)])

\* detect_model: client.models.list().data[0].id, "unknown" on any exception
\* (the engine unreachable, or an empty model list)
detect_model(models) ==
    IF models.reachable /\ models.data # <<>> THEN models.data[1] ELSE "unknown"

\* main: "if model_name == 'unknown'", never taken
NoModelNever(name) == FALSE

\* main: "if model_name == 'unknown'"
NoModel(name) == name = "unknown"

(***************************************************************************)
(* Review driver: inputs and actions                                       *)
(***************************************************************************)

MaxFound == 3

\* A source text of n characters that starts with a line naming its file
FileText(path, n) == Prefix("<?php // " \o path \o "\n" \o BigReport, n)

\* The files discover_files may return, in path order
FoundPool ==
    <<[path |-> "functions.php", content_len |-> 8000],
      [path |-> "inc/template-tags.php", content_len |-> 5000],
      [path |-> "single.php", content_len |-> 5000],
      [path |-> "style.css", content_len |-> 8000]>>

FoundFile(k) ==
    [path |-> FoundPool[k].path, content_len |-> FoundPool[k].content_len,
     content |-> FileText(FoundPool[k].path, FoundPool[k].content_len)]

FoundLists ==
    {[k \in 1..Len(idx) |-> FoundFile(idx[k])] :
        idx \in {SelectSeq([i \in 1..Len(FoundPool) |-> i], LAMBDA i : i \in sel) :
                    sel \in {x \in SUBSET (1..Len(FoundPool)) : Cardinality(x) <= MaxFound}}}

SHORT_DIFF == "diff --git a/functions.php b/functions.php\n+add_action('init', 'x');"

\* A diff one character longer than review_batch passes on
LONG_DIFF == Prefix(BigReport, DIFF_MAX_CHARS) \o "+"

\* mode, --tools-only, what git_changed_files and git_diff return
RunModes ==
    {[mode |-> "repo", tools_only |-> FALSE, changed |-> FALSE, diff |-> ""],
     [mode |-> "repo", tools_only |-> TRUE, changed |-> FALSE, diff |-> ""],
     [mode |-> "pr", tools_only |-> TRUE, changed |-> TRUE, diff |-> SHORT_DIFF],
     [mode |-> "pr", tools_only |-> FALSE, changed |-> FALSE, diff |-> ""],
     [mode |-> "pr", tools_only |-> FALSE, changed |-> TRUE, diff |-> ""],
     [mode |-> "pr", tools_only |-> FALSE, changed |-> TRUE, diff |-> SHORT_DIFF],
     [mode |-> "pr", tools_only |-> FALSE, changed |-> TRUE, diff |-> LONG_DIFF]}

\* What run_tools returns as prompt context
AnalysisTexts == {"", "# Static Analysis Results\n\n## PHP Syntax Check: 0 findings\n"}

\* What the prior report section of main leaves in prior_report_ctx
PriorTexts == {"", "# WalterChecks Report\n\n## Summary\n"}

\* What client.models.list() does
ModelLists ==
    {[reachable |-> FALSE, data |-> <<>>],
     [reachable |-> TRUE, data |-> <<>>],
     [reachable |-> TRUE, data |-> <<"Qwen/Qwen2.5-Coder-32B-Instruct-AWQ">>],
     [reachable |-> TRUE, data |-> <<"unknown">>]}

\* The engine's answer to the k-th request it got: a reply, or an error
\* raised by the client
EngineOutcomes(k) ==
    {[ok |-> TRUE, text |-> "## Findings (request " \o IntStr(k) \o ")"],
     [ok |-> FALSE, text |-> "Connection error."],
     [ok |-> FALSE, text |-> "Error code: 400"]}

\* main after argument parsing, configuration and the prior report section
InitMain ==
    /\ \E rm \in RunModes, a \in AnalysisTexts, pr \in PriorTexts,
          fl \in FoundLists, ml \in ModelLists :
          /\ run_in = [mode |-> rm.mode, tools_only |-> rm.tools_only,
                       changed |-> rm.changed, diff |-> rm.diff,
                       analysis |-> a, found |-> fl, models |-> ml]
          /\ mctx = [analysis_ctx |-> "", diff_ctx |-> "", prior_report_ctx |-> pr]
    /\ mpc = "tools"
    /\ mtrace = <<>>
    /\ model_name = ""
    /\ mbatches = <<>>
    /\ requests = <<>>
    /\ inflight = {}
    /\ mresults = <<>>
    /\ OthersIdle("main")

\* "if args.tools_only:", the branch never taken
ExitsAfterToolsNever(tools_only) == FALSE

\* "if args.tools_only:"
ExitsAfterTools(tools_only) == tools_only

\* analysis_ctx, analysis_rpt = run_tools(...); a tools-only run saves its
\* report and exits
RunTools ==
    /\ mpc = "tools"
    /\ mtrace' = IF ExitsAfterTools(run_in.tools_only)
                 THEN mtrace \o <<"run_tools", "save_report">>
                 ELSE Append(mtrace, "run_tools")
    /\ mctx' = [mctx EXCEPT !.analysis_ctx = run_in.analysis]
    /\ mpc' = IF ExitsAfterTools(run_in.tools_only) THEN "exit0"
              ELSE IF run_in.mode = "pr" THEN "pr" ELSE "scan"
    /\ UNCHANGED <<run_in, model_name, mbatches, requests, inflight, mresults, notMainVars>>

\* pr mode: git_changed_files, git_diff, git_log; exit when nothing changed
AnalyzePr ==
    /\ mpc = "pr"
    /\ mtrace' = Append(mtrace, "git_changed_files")
    /\ mctx' = IF run_in.changed THEN [mctx EXCEPT !.diff_ctx = run_in.diff] ELSE mctx
    /\ mpc' = IF run_in.changed THEN "scan" ELSE "exit0"
    /\ UNCHANGED <<run_in, model_name, mbatches, requests, inflight, mresults, notMainVars>>

\* files = discover_files(...); exit when no file matches
ScanFiles ==
    /\ mpc = "scan"
    /\ mtrace' = Append(mtrace, "discover_files")
    /\ mpc' = IF run_in.found = <<>> THEN "exit0" ELSE "group"
    /\ UNCHANGED <<run_in, mctx, model_name, mbatches, requests, inflight, mresults, notMainVars>>

\* batches = grouper(files)
GroupFound ==
    /\ mpc = "group"
    /\ mtrace' = Append(mtrace, "grouper")
    /\ mbatches' = GroupDiscovered("flat", run_in.found)
    /\ mpc' = "connect"
    /\ UNCHANGED <<run_in, mctx, model_name, requests, inflight, mresults, notMainVars>>

\* model_name = detect_model(client); exit(1) when it is "unknown"
ConnectLlm ==
    /\ mpc = "connect"
    /\ mtrace' = Append(mtrace, "detect_model")
    /\ model_name' = detect_model(run_in.models)
    /\ mpc' = IF NoModel(detect_model(run_in.models)) THEN "exit1" ELSE "review"
    /\ UNCHANGED <<run_in, mctx, mbatches, requests, inflight, mresults, notMainVars>>

\* The review loop takes the next batch (i counts the batches taken before
\* it): review_batch builds the request and client.chat.completions.create
\* sends it
SubmitBatch ==
    /\ mpc = "review"
    /\ Len(requests) < Len(mbatches)
    /\ LET i == Len(requests)
       IN  /\ requests' = Append(requests,
                  UserContent(mbatches[i + 1],
                              CtxFor(i, mctx.analysis_ctx),
                              CtxFor(i, mctx.diff_ctx),
                              CtxFor(i, mctx.prior_report_ctx)))
           /\ inflight' = inflight \cup {i + 1}
    /\ mtrace' = Append(mtrace, "create")
    /\ mpc' = "awaiting"
    /\ UNCHANGED <<run_in, mctx, model_name, mbatches, mresults, notMainVars>>

\* The call returned or raised: review_batch returns and main appends
Answered(outcome) ==
    /\ mpc = "awaiting"
    /\ mresults' = Appended(mresults, mbatches[Len(requests)], outcome)
    /\ inflight' = inflight \ {Len(requests)}
    /\ mtrace' = Append(mtrace, IF outcome.ok THEN "reply" ELSE "error")
    /\ mpc' = "review"
    /\ UNCHANGED <<run_in, mctx, model_name, mbatches, requests, notMainVars>>

\* client.chat.completions.create returns the engine's reply
BatchComplete ==
    /\ inflight # {}
    /\ \E o \in {x \in EngineOutcomes(Len(requests)) : x.ok} : Answered(o)

\* client.chat.completions.create raises; review_batch catches it
BatchErrored ==
    /\ inflight # {}
    /\ \E o \in {x \in EngineOutcomes(Len(requests)) : ~x.ok} : Answered(o)

\* After the loop: generate_report and save_report
WriteReport ==
    /\ mpc = "review"
    /\ Len(requests) = Len(mbatches)
    /\ mtrace' = Append(mtrace, "save_report")
    /\ mpc' = "done"
    /\ UNCHANGED <<run_in, mctx, model_name, mbatches, requests, inflight, mresults, notMainVars>>

NextMain ==
    \/ RunTools \/ AnalyzePr \/ ScanFiles \/ GroupFound \/ ConnectLlm
    \/ SubmitBatch \/ BatchComplete \/ BatchErrored \/ WriteReport

SpecMain == InitMain /\ [][NextMain]_vars

\* Paths of a batch, in order
BatchPaths(batch) == [k \in 1..Len(batch) |-> batch[k].path]

\* The answers the engine gave so far, in order: "reply" or "error"
Answers == SelectSeq(mtrace, LAMBDA ev : ev \in {"reply", "error"})

\* C15: batches go to the engine one at a time and in list order: at most
\* one batch is in flight, it is the batch after those already answered,
\* and results[i] holds the files of batch i and the engine's answer to
\* request i.
C15_SequentialInOrder ==
    /\ Cardinality(inflight) <= 1
    /\ inflight \subseteq {Len(mresults) + 1}
    /\ Len(requests) = Len(mresults) + Cardinality(inflight)
    /\ Len(requests) <= Len(mbatches)
    /\ \A i \in 1..Len(mresults) :
          /\ mresults[i].files = BatchPaths(mbatches[i])
          /\ mresults[i].file_count = Len(mbatches[i])
          /\ mresults[i].review \in {ReviewText(o) : o \in EngineOutcomes(i)}

\* Two batches were answered and the third is in flight.
C15_Witness ==
    /\ Len(mresults) = 2
    /\ inflight = {3}
    /\ Len(mbatches) = 3

\* C16: a request that fails leaves the error string as that batch's review
\* text and the loop goes on: every answer so far, reply or error, gave one
\* result, the run is not aborted once requests are under way, and after the
\* loop every batch has exactly one result.
C16_ErrorsRecorded ==
    /\ Len(Answers) = Len(mresults)
    /\ \A k \in 1..Len(mresults) :
          Answers[k] = "error"
              <=> StartsWith(mresults[k].review, "**Error reviewing batch:** ")
    /\ requests # <<>> => mpc \in {"review", "awaiting", "done"}
    /\ mpc = "done" => Len(mresults) = Len(mbatches)

\* The run finished three batches, the first request having failed.
C16_Witness ==
    /\ mpc = "done"
    /\ Len(mbatches) = 3
    /\ Answers = <<"error", "reply", "error">>

\* The request carries the file: its path marker on a line, and the
\* file's content from the next line on.
CarriesFile(req, f) ==
    LET marker == FileMarker(f.path) \o "\n"
        at     == FirstIndex(req, marker)
    IN  /\ at > 0
        /\ SubSeq(req, at + Len(marker), at + Len(marker) + Len(f.content) - 1)
              = f.content

\* The request sent for batch k is as C17 has it.
RequestAsSpecified(req, k) ==
    LET first == k = 1
    IN  /\ Contains(req, PRIOR_HEADER) <=> (first /\ mctx.prior_report_ctx # "")
        /\ Contains(req, ANALYSIS_HEADER) <=> (first /\ mctx.analysis_ctx # "")
        /\ Contains(req, DIFF_HEADER) <=> (first /\ mctx.diff_ctx # "")
        /\ Contains(req, PRIOR_HEADER) => Contains(req, mctx.prior_report_ctx)
        /\ Contains(req, ANALYSIS_HEADER) =>
              Contains(req, ANALYSIS_HEADER \o mctx.analysis_ctx)
        /\ Contains(req, DIFF_HEADER) =>
              Contains(req, DIFF_HEADER \o Prefix(mctx.diff_ctx, DIFF_MAX_CHARS))
        /\ \A j \in 1..Len(mbatches[k]) : CarriesFile(req, mbatches[k][j])

\* C17: only the request for the first batch carries the prior report, the
\* static analysis rendering and the diff, each only when it is not empty;
\* the requests for later batches carry none of them; every request carries
\* each file of its batch as a path marker followed by the file's content.
C17_ContextOnFirstBatchOnly ==
    [][requests' # requests =>
          RequestAsSpecified(requests'[Len(requests')], Len(requests'))]_vars

\* A second request went out in a follow-up PR run that had tool output
\* and a diff.
C17_Witness ==
    /\ Len(requests) >= 2
    /\ mctx.prior_report_ctx # "" /\ mctx.analysis_ctx # "" /\ mctx.diff_ctx = LONG_DIFF

\* client.models.list() raises or lists no model.
NoModelOnEngine == ~run_in.models.reachable \/ run_in.models.data = <<>>

\* C18: when the engine offers no model, the run aborts at the connect step
\* and no batch is ever submitted.
C18_NoModelNoSubmission ==
    (mpc # "idle" /\ NoModelOnEngine) =>
        /\ requests = <<>> /\ inflight = {} /\ mresults = <<>>
        /\ mpc \notin {"review", "awaiting", "done"}
        /\ model_name \in {"", "unknown"}
        /\ "detect_model" \in {mtrace[k] : k \in 1..Len(mtrace)} => mpc = "exit1"

\* The run aborted at the connect step with batches at hand.
C18_Witness ==
    /\ mpc = "exit1"
    /\ NoModelOnEngine
    /\ mbatches # <<>>
    /\ requests = <<>>

\* C19: when the engine offers no model, a run that is not tools-only
\* aborts before discover_files and the grouper are called: model discovery
\* comes first.
C19_ModelBeforeScanning ==
    \A k \in 1..Len(mtrace) :
        mtrace[k] \in {"discover_files", "grouper"} =>
            /\ ~NoModelOnEngine
            /\ \E j \in 1..(k - 1) : mtrace[j] = "detect_model"

\* C26: a tools-only run never contacts the completion engine: once the
\* tool suite is through, the report is saved and the run ends; no model is
\* looked for, no file is discovered or batched, no batch is submitted.
C26_ToolsOnlyStaysLocal ==
    (mpc # "idle" /\ run_in.tools_only) =>
        /\ mtrace \in {<<>>, <<"run_tools", "save_report">>}
        /\ mtrace # <<>> => mpc = "exit0"
        /\ model_name = "" /\ mbatches = <<>>
        /\ requests = <<>> /\ inflight = {} /\ mresults = <<>>

\* A tools-only run of pr mode is over, the engine having a model to offer.
C26_Witness ==
    /\ run_in.tools_only /\ run_in.mode = "pr"
    /\ mpc = "exit0"
    /\ mtrace = <<"run_tools", "save_report">>
    /\ ~NoModel(detect_model(run_in.models))
    /\ run_in.found # <<>>

(***************************************************************************)
(* SUITE RENDERINGS (analyzers.py AnalysisSuite)                           *)
(***************************************************************************)

PROMPT_OUTPUT_MAX == 8000

\* The icons of to_report_section, by name
SKIP_ICON == "[skip]"
RED_ICON == "[red]"
YELLOW_ICON == "[yellow]"
GREEN_ICON == "[green]"

\* "if not r.success and not r.output": the result is rendered as skipped
RenderedSkipped(r) == ~r.success /\ r.output = ""

\* to_prompt_context: the lines of one result
PromptLines(r) ==
    IF RenderedSkipped(r)
    THEN <<"## " \o r.tool \o ": SKIPPED (" \o r.error \o ")", "">>
    ELSE <<"## " \o r.tool \o ": " \o IntStr(r.findings_count) \o " findings">>
         \o (IF r.summary # "" THEN <<r.summary>> ELSE <<>>)
         \o <<"">>
         \o (IF r.output # ""
             THEN <<FENCE,
                    IF Len(r.output) > PROMPT_OUTPUT_MAX
                    THEN Prefix(r.output, PROMPT_OUTPUT_MAX)
                         \o "\n\n... (truncated, first 8000 chars shown)"
                    ELSE r.output,
                    FENCE>>
             ELSE <<>>)
         \o <<"">>

\* AnalysisSuite.to_prompt_context
to_prompt_context(rs) ==
    IF rs = <<>> THEN ""
    ELSE Join(<<"# Static Analysis Results",
                "",
                "The following tools were run against this codebase before your review.",
                "Use these results to inform your review: confirm real issues, dismiss",
                "false positives, explain patterns, and find issues the tools missed.",
                "">>
              \o Flatten([k \in 1..Len(rs) |-> PromptLines(rs[k])]),
              "\n")

ReportIcon(n) == IF n > 10 THEN RED_ICON ELSE IF n > 0 THEN YELLOW_ICON ELSE GREEN_ICON

\* to_report_section: the lines of one result
ReportLines(r) ==
    IF RenderedSkipped(r)
    THEN <<"### " \o SKIP_ICON \o " " \o r.tool, "*Skipped: " \o r.error \o "*\n">>
    ELSE <<"### " \o ReportIcon(r.findings_count) \o " " \o r.tool \o DASH
               \o IntStr(r.findings_count) \o " findings">>
         \o (IF r.summary # "" THEN <<"*" \o r.summary \o "*">> ELSE <<>>)
         \o <<"">>
         \o (IF r.output # "" /\ r.output # "No issues found."
             THEN <<FENCE, r.output, FENCE>>
             ELSE IF r.findings_count = 0
                  THEN <<"Clean" \o DASH \o "no issues found.">>
                  ELSE <<>>)
         \o <<"">>

\* to_report_section: total, summed over the results not rendered as skipped
ReportTotal(rs) ==
    SumSeq([k \in 1..Len(rs) |->
        IF RenderedSkipped(rs[k]) THEN 0 ELSE rs[k].findings_count])

\* AnalysisSuite.to_report_section
to_report_section(rs) ==
    IF rs = <<>> THEN "No tools were run."
    ELSE "**Total findings across all tools: " \o IntStr(ReportTotal(rs)) \o "**\n\n"
         \o Join(Flatten([k \in 1..Len(rs) |-> ReportLines(rs[k])]), "\n")

\* What _run_parallel keeps for a task whose adapter produced out
SuiteResult(task, out) == CollectedResults(<<>>, task, out)[1]

\* The results the PHP syntax check, PHPStan and the Composer audit can
\* leave in a suite
LintResults ==
    {SuiteResult(Task("Parallel Lint", "run_parallel_lint", NoArg),
                 run_parallel_lint(on_path, proc).out) :
        on_path \in BOOLEAN, proc \in Procs("run_parallel_lint")}

PhpstanResults ==
    {SuiteResult(Task("PHPStan", "run_phpstan", 5),
                 run_phpstan(5, e.vendor, e.on_path, e.exec, proc).out) :
        e \in VendorEnvs, proc \in Procs("run_phpstan")}

ComposerResults ==
    {SuiteResult(Task("Composer Audit", "run_composer_audit", NoArg),
                 run_composer_audit(has_lock, on_path, proc).out) :
        has_lock \in BOOLEAN, on_path \in BOOLEAN,
        proc \in Procs("run_composer_audit")}

\* A suite: at most one result per tool, in the order of the tool names
\* (_run_parallel sorts by tool)
Suites ==
    {SortedByTool(a \o b \o c) :
        a \in {<<>>} \cup {<<r>> : r \in LintResults},
        b \in {<<>>} \cup {<<r>> : r \in PhpstanResults},
        c \in {<<>>} \cup {<<r>> : r \in ComposerResults}}

\* run_tools: the suite runner returned
InitRender ==
    /\ suite \in Suites
    /\ suite_ctx = ""
    /\ suite_rpt = ""
    /\ sphase = "built"
    /\ OthersIdle("render")

\* run_tools: suite.to_prompt_context()
ToPromptContext ==
    /\ sphase = "built"
    /\ suite_ctx' = to_prompt_context(suite)
    /\ sphase' = "prompted"
    /\ UNCHANGED <<suite, suite_rpt, notRenderVars>>

\* run_tools: suite.to_report_section()
ToReportSection ==
    /\ sphase = "prompted"
    /\ suite_rpt' = to_report_section(suite)
    /\ sphase' = "reported"
    /\ UNCHANGED <<suite, suite_ctx, notRenderVars>>

NextRender == ToPromptContext \/ ToReportSection

SpecRender == InitRender /\ [][NextRender]_vars

\* The heading of a tool shown as having run with n findings
PromptRanHeading(r, n) == "## " \o r.tool \o ": " \o IntStr(n) \o " findings"

ReportRanHeading(r, n) == r.tool \o DASH \o IntStr(n) \o " findings"

\* C20: both renderings tell three outcomes apart for every result of the
\* suite: success=false is shown as skipped with its reason, success=true
\* with no findings as run with 0 findings, success=true with N findings as
\* N findings; a tool that could not run is never shown as run with 0
\* findings.
C20_ThreeOutcomes ==
    sphase = "reported" =>
        \A k \in 1..Len(suite) :
            LET r == suite[k]
            IN  /\ ~r.success =>
                      /\ Contains(suite_ctx, "## " \o r.tool \o ": SKIPPED (" \o r.error \o ")")
                      /\ Contains(suite_rpt, r.tool \o "\n*Skipped: " \o r.error \o "*")
                      /\ ~Contains(suite_ctx, PromptRanHeading(r, 0))
                      /\ ~Contains(suite_rpt, ReportRanHeading(r, 0))
                /\ r.success =>
                      /\ Contains(suite_ctx, PromptRanHeading(r, r.findings_count))
                      /\ Contains(suite_rpt, ReportRanHeading(r, r.findings_count))
                      /\ ~Contains(suite_ctx, "## " \o r.tool \o ": SKIPPED")

(***************************************************************************)
(* PROJECT CONFIGURATION (review.py load_config, apply_config)             *)
(***************************************************************************)

\* What a directory holds under the name WalterChecks.json: no file, a file
\* open() cannot read, a file whose bytes do not decode in the locale's
\* encoding, or a text.
NoFile == [state |-> "absent", text |-> ""]

TextFile(text) == [state |-> "text", text |-> text]

\* "with open(config_path, 'r') as f: config = json.load(f)": the parsed
\* value, or the exception the two lines raise
ReadConfig(file) ==
    CASE file.state = "unreadable" -> [t |-> "raise", exc |-> "PermissionError"]
      [] file.state = "undecodable" -> [t |-> "raise", exc |-> "UnicodeDecodeError"]
      [] file.state = "text" ->
            IF JsonLoads(file.text).t = "error"
            THEN [t |-> "raise", exc |-> "JSONDecodeError"]
            ELSE JsonLoads(file.text)

\* "except (json.JSONDecodeError, IOError)": PermissionError is an OSError,
\* which is IOError; UnicodeDecodeError is a ValueError beside JSONDecodeError
CaughtByLoadConfig(exc) == exc \in {"JSONDecodeError", "PermissionError"}

EmptyConfig == [t |-> "dict", v |-> EmptyDict]

\* load_config(repo): the first of repo and its parent directory that holds
\* the file decides
load_config(repo_file, parent_file) ==
    LET found == IF repo_file.state # "absent" THEN repo_file ELSE parent_file
    IN  IF found.state = "absent"
        THEN [kind |-> "return", config |-> EmptyConfig, warned |-> FALSE]
        ELSE IF ReadConfig(found).t # "raise"
        THEN [kind |-> "return", config |-> ReadConfig(found), warned |-> FALSE]
        ELSE IF CaughtByLoadConfig(ReadConfig(found).exc)
        THEN [kind |-> "return", config |-> EmptyConfig, warned |-> TRUE]
        ELSE [kind |-> "exception", text |-> ReadConfig(found).exc]

\* args after parser.parse_args(): --profile defaults to "general",
\* --phpstan-level to None (<<>> here, <<n>> for the integer n)
ParsedArgs(cli) ==
    [profile |-> IF cli.profile_given THEN cli.profile ELSE "general",
     phpstan_level |-> cli.phpstan_level,
     repo |-> REPO]

\* apply_config(config, repo, args).  '"root" in config' raises TypeError
\* on None and on a number and is False on the list and the string read
\* here; config.get exists on a dict only.
apply_config(cfg, root_is_dir, args) ==
    IF cfg.t \in {"null", "int"}
    THEN Raise("argument of type '" \o PyType(cfg.t) \o "' is not iterable")
    ELSE IF cfg.t # "dict"
    THEN Raise(NoAttribute(cfg.t, "get"))
    ELSE LET c == cfg.v
         IN  [kind |-> "return",
              args |->
                 [profile |->
                     IF Get(c, "profile", "") # "" /\ args.profile = "wordpress"
                     THEN c.profile ELSE args.profile,
                  phpstan_level |->
                     IF "phpstan_level" \in DOMAIN c /\ args.phpstan_level = <<>>
                     THEN <<c.phpstan_level>> ELSE args.phpstan_level,
                  repo |->
                     IF "root" \in DOMAIN c /\ root_is_dir
                     THEN args.repo \o "/" \o c.root ELSE args.repo]]

(***************************************************************************)
(* Project configuration: inputs and actions                               *)
(***************************************************************************)

\* What the scanned directory may hold as WalterChecks.json
RepoConfigFiles ==
    {NoFile,
     [state |-> "unreadable", text |-> ""],
     [state |-> "undecodable", text |-> ""]}
    \cup {TextFile(t) : t \in {CONFIG_FULL, CONFIG_PROFILE, CONFIG_LEVEL,
                              EMPTY_OBJECT, Truncated(CONFIG_FULL), "",
                              EMPTY_LIST, JSON_NULL, JSON_STRING}}

\* What its parent directory may hold
ParentConfigFiles ==
    {NoFile, TextFile(CONFIG_PROFILE), TextFile(Truncated(CONFIG_PROFILE))}

\* The command line: --profile and --phpstan-level, given or left out
CommandLines ==
    {[profile_given |-> FALSE, profile |-> "", phpstan_level |-> l] :
        l \in {<<>>, <<3>>}}
    \cup {[profile_given |-> TRUE, profile |-> p, phpstan_level |-> l] :
            p \in {"general", "wordpress", "laravel"}, l \in {<<>>, <<3>>}}

\* main after parse_args, before "config = load_config(repo)"
InitConfig ==
    /\ \E rf \in RepoConfigFiles, pf \in ParentConfigFiles,
          cli \in CommandLines, dir \in BOOLEAN :
          /\ cfg_in = [repo_file |-> rf, parent_file |-> pf, cli |-> cli,
                       root_is_dir |-> dir]
          /\ cargs = ParsedArgs(cli)
    /\ config = [t |-> "none"]
    /\ cwarned = FALSE
    /\ cpc = "load"
    /\ OthersIdle("config")

\* config = load_config(repo)
LoadConfig ==
    /\ cpc = "load"
    /\ LET r == load_config(cfg_in.repo_file, cfg_in.parent_file)
       IN  IF r.kind = "exception"
           THEN /\ cpc' = "raised"
                /\ UNCHANGED <<config, cwarned>>
           ELSE /\ cpc' = "apply"
                /\ config' = r.config
                /\ cwarned' = r.warned
    /\ UNCHANGED <<cfg_in, cargs, notCfgVars>>

\* repo, config = apply_config(config, repo, args)
ApplyConfig ==
    /\ cpc = "apply"
    /\ LET r == apply_config(config, cfg_in.root_is_dir, cargs)
       IN  IF r.kind = "exception"
           THEN cpc' = "raised" /\ UNCHANGED cargs
           ELSE cpc' = "configured" /\ cargs' = r.args
    /\ UNCHANGED <<cfg_in, config, cwarned, notCfgVars>>

NextConfig == LoadConfig \/ ApplyConfig

SpecConfig == InitConfig /\ [][NextConfig]_vars

\* The file load_config reads
FoundConfigFile ==
    IF cfg_in.repo_file.state # "absent" THEN cfg_in.repo_file
    ELSE cfg_in.parent_file

\* The file is there and does not hold a JSON object: bytes that are no
\* text, a document cut off or empty, or a JSON value of another type.
MalformedConfig ==
    \/ FoundConfigFile.state = "undecodable"
    \/ /\ FoundConfigFile.state = "text"
       /\ JsonLoads(FoundConfigFile.text).t # "dict"

\* C21: a malformed WalterChecks.json never aborts the run: load_config
\* warns and returns the empty configuration, and the run goes on with the
\* arguments as the command line left them.
C21_MalformedConfigIgnored ==
    (cpc # "idle" /\ MalformedConfig) =>
        /\ cpc # "raised"
        /\ cpc \in {"apply", "configured"} => config = EmptyConfig /\ cwarned
        /\ cpc = "configured" => cargs = ParsedArgs(cfg_in.cli)

\* The configuration main works with is an object that names a profile,
\* or a PHPStan level.
ConfigProfile == Get(config.v, "profile", "")

ConfigLevel ==
    IF "phpstan_level" \in DOMAIN config.v THEN <<config.v.phpstan_level>> ELSE <<>>

\* C22: the command line wins over the configuration: the configuration's
\* profile is used exactly when --profile was left out, a --profile that was
\* given is kept whatever its value, and the configuration's phpstan_level
\* is used only when --phpstan-level was left out.
C22_CommandLineOverrides ==
    (cpc = "configured") =>
        /\ cfg_in.cli.profile_given => cargs.profile = cfg_in.cli.profile
        /\ (~cfg_in.cli.profile_given /\ ConfigProfile # "") =>
              cargs.profile = ConfigProfile
        /\ (~cfg_in.cli.profile_given /\ ConfigProfile = "") =>
              cargs.profile = "general"
        /\ cfg_in.cli.phpstan_level # <<>> =>
              cargs.phpstan_level = cfg_in.cli.phpstan_level
        /\ cfg_in.cli.phpstan_level = <<>> => cargs.phpstan_level = ConfigLevel

====
